------------------------------ MODULE FilesProofs ------------------------------
(***************************************************************************)
(* HandlesKnown, PreviousWhole and CacheTells, for uploads and readers of any *)
(* number, any list of failed writers, and any resets and timeouts.          *)
(***************************************************************************)
EXTENDS Files, FiniteSetTheorems, TLAPS

-----------------------------------------------------------------------------
(* The invariant, of a store s, the uploads cn, the whole-file write w, the    *)
(* last version v, the contents allowed m, the names spoilt sp and the closes  *)
(* that came too late: so that it can be said of the store inside a call too.  *)

ConnType == [Conns -> [at: {"IDLE", "BODY", "WHOLE", "SHORT", "RENAME", "REMOVE"}, version: 0 .. MaxVersion]]
WholeType == [at: {"IDLE", "WRITE", "WROTE", "SHORT"}, name: Kept, version: 0 .. MaxVersion]
MayType == [Kept -> SUBSET (0 .. MaxVersion)]
Typed(cn, w, v, m, sp, late) ==
    /\ cn \in ConnType /\ w \in WholeType /\ v \in 0 .. MaxVersion
    /\ m \in MayType /\ sp \subseteq Kept /\ late \in Nat

Up(cn) == {c \in Conns : cn[c].at \in {"BODY", "WHOLE", "SHORT"}}
Open(s) == {r \in Readers : s.reading[r] /= NoName}

\* Who has which handle: one upload at most, its writer, the whole-file write's,
\* the readers'; and a writer that failed is nobody's.
HandlesInv(s, cn, w, late) ==
    /\ \A c, d \in Conns : cn[c].at /= "IDLE" /\ cn[d].at /= "IDLE" => c = d
    /\ \A c \in Up(cn) :
           /\ s.writing[Part].is = "OPEN" /\ s.writing[Part].got.version = cn[c].version
           /\ cn[c].at = "WHOLE" => s.writing[Part].got.whole
    /\ w.at /= "IDLE" =>
           /\ s.writing[w.name].is = "OPEN" /\ s.writing[w.name].got.version = w.version
           /\ w.at = "WROTE" => s.writing[w.name].got.whole
    /\ IsFiniteSet(Open(s))
    /\ s.held = (IF Up(cn) = {} THEN 0 ELSE 1) + Cardinality(Open(s)) + (IF w.at = "IDLE" THEN 0 ELSE 1) + late
    /\ \A f \in s.failed :
           /\ s.up => s.writing[f.name].is = "OPEN"
           /\ f.name = Part => Up(cn) = {}
           /\ f.name = w.name => w.at = "IDLE"

\* What is being written is newer than all that has been.
VersionsInv(s, cn, w, v) ==
    /\ \A n \in Names : s.closed[n].version <= v
    /\ w.at /= "IDLE" => w.version \in 1 .. v
    /\ \A c \in Conns : cn[c].at \in {"BODY", "WHOLE", "SHORT", "RENAME"} =>
           /\ cn[c].version \in 1 .. v
           /\ \A n \in Kept : s.closed[n].version /= cn[c].version
           /\ w.at /= "IDLE" => w.version /= cn[c].version

\* The part file that is about to be renamed is the upload's, whole.
RenameInv(s, cn) ==
    \A c \in Conns : cn[c].at = "RENAME" =>
           s.closed[Part] = Bytes(cn[c].version, TRUE) /\ \A f \in s.failed : f.name /= Part

GoodIn(s, m, n) ==
    IF s.closed[n] = Absent THEN 0 \in m[n] ELSE s.closed[n].whole /\ s.closed[n].version \in m[n]

\* What each name reads as, now and once the writers that failed are let go.
ContentInv(s, m, sp) ==
    /\ \A n \in Kept : n \in sp \/ GoodIn(s, m, n)
    /\ \A f \in s.failed : f.remove =>
           f.name /= Pad /\ (f.name = Dest => Dest \in sp \/ 0 \in m[Dest])

\* A copy never closed is of a content tried.
CopiesTried ==
    \A n \in Kept : fs.writing[n].is /= "NONE" => fs.writing[n].got.version \in may[n] \cup Tried(n)

\* Of the copies never closed, some are gone and the others of the same content.
Fewer(t, s) ==
    \A k \in Names : t.writing[k].is /= "NONE" =>
        s.writing[k].is /= "NONE" /\ t.writing[k].got.version = s.writing[k].got.version

StoreOK(s, cn, w, v, m, sp, late) ==
    /\ s \in Store /\ Typed(cn, w, v, m, sp, late)
    /\ HandlesInv(s, cn, w, late) /\ VersionsInv(s, cn, w, v) /\ RenameInv(s, cn) /\ ContentInv(s, m, sp)

\* The cached copy is the pad marker's while it is not being stored, and what the
\* flight task has taken in a try is the copy's while the count stands.
CacheInv ==
    /\ cache.storing \in {2, 3, 4, 5} <=> cache.seq % 2 = 1
    /\ cache.storing \in {0, 1} => \A i, j \in Pieces : cache.piece[i] = cache.piece[j]
    /\ \A i \in Pieces : i + 2 <= cache.storing => cache.piece[i] = cache.version
    /\ whole.at /= "IDLE" /\ whole.name = Pad => cache.storing = 0
    /\ Pad \notin spoilt /\ fs.closed[Pad] /= Absent =>
           IF cache.storing = 0 THEN \A i \in Pieces : cache.piece[i] = fs.closed[Pad].version
           ELSE cache.version = fs.closed[Pad].version

FlightInv ==
    /\ flight.ok => /\ flight.took = 0 /\ flight.try = Tries
                    /\ \A i, j \in Pieces : flight.piece[i] = flight.piece[j]
    /\ flight.took /= 0 =>
           /\ flight.try < Tries /\ flight.seq <= cache.seq /\ flight.seq % 2 = 0
           /\ flight.seq = cache.seq => \A i \in Pieces : i + flight.took >= 5 => flight.piece[i] = cache.piece[i]

-----------------------------------------------------------------------------
(* The store's calls, field by field *)

LEMMA NamesIs == Names = {Dest, Part, Pad} /\ Dest /= Part /\ Dest /= Pad /\ Part /= Pad /\ NoName \notin Names
  <1>1. Names = {Dest, Part, Pad} /\ Cardinality(Names) = 3 /\ NoName \notin Names
    BY FilesConstants
  <1>2. \A a, b : Cardinality({a, b}) /= 3
    <2> TAKE a, b
    <2>1. IsFiniteSet({b}) /\ Cardinality({b}) = 1 /\ {a, b} = {b} \cup {a}
      BY FS_Singleton
    <2>2. Cardinality({b} \cup {a}) \in {1, 2}
      BY <2>1, FS_AddElement
    <2>3. \A k : k \in {1, 2} => k /= 3
      OBVIOUS
    <2> QED BY <2>1, <2>2, <2>3
  <1>3. Dest /= Part /\ Dest /= Pad /\ Part /= Pad
    <2>1. Dest = Part => Names = {Dest, Pad}
      BY <1>1
    <2>2. Dest = Pad => Names = {Dest, Part}
      BY <1>1
    <2>3. Part = Pad => Names = {Dest, Part}
      BY <1>1
    <2> QED BY <1>1, <1>2, <2>1, <2>2, <2>3
  <1> QED BY <1>1, <1>3

LEMMA StoreFields ==
    ASSUME NEW s \in Store
    PROVE  /\ s.up \in BOOLEAN /\ s.closed \in [Names -> Content]
           /\ s.writing \in [Names -> [is: {"NONE", "OPEN", "LEFT"}, got: Content]]
           /\ s.reading \in [Readers -> Names \cup {NoName}]
           /\ s.held \in Nat /\ s.failed \in SUBSET [name: Names, remove: BOOLEAN] /\ s.nfailed \in Nat
  BY DEF Store

LEMMA OpenedIs ==
    ASSUME NEW s \in Store, NEW n \in Names, NEW got \in Content
    PROVE  LET t == Opened(s, n, got)
           IN  /\ t \in Store
               /\ t.up = s.up /\ t.closed = s.closed /\ t.reading = s.reading
               /\ t.held = s.held /\ t.failed = s.failed /\ t.nfailed = s.nfailed
               /\ t.writing[n].is = "OPEN" /\ t.writing[n].got = got
               /\ \A k \in Names : k /= n => t.writing[k] = s.writing[k]
  BY DEF Store, Opened

LEMMA CommittedIs ==
    ASSUME NEW s \in Store, NEW n \in Names
    PROVE  LET t == Committed(s, n)
           IN  /\ t \in Store
               /\ t.up = s.up /\ t.reading = s.reading
               /\ t.held = s.held /\ t.failed = s.failed /\ t.nfailed = s.nfailed
               /\ t.closed[n] = s.writing[n].got /\ t.writing[n].is = "NONE"
               /\ \A k \in Names : k /= n => t.closed[k] = s.closed[k] /\ t.writing[k] = s.writing[k]
  <1> DEFINE t == Committed(s, n)
  <1>1. t = [s EXCEPT !.closed = [s.closed EXCEPT ![n] = s.writing[n].got],
                      !.writing = [s.writing EXCEPT ![n] = NoCopy]]
    BY DEF Committed, Store
  <1>2. NoCopy \in [is: {"NONE", "OPEN", "LEFT"}, got: Content] /\ NoCopy.is = "NONE"
    BY StoreConstants DEF NoCopy, Absent, Content
  <1>3. s.writing[n].got \in Content
    BY DEF Store
  <1> HIDE DEF t
  <1>4. t \in Store
    BY <1>1, <1>2, <1>3 DEF Store
  <1>5. /\ t.closed = [s.closed EXCEPT ![n] = s.writing[n].got] /\ t.writing = [s.writing EXCEPT ![n] = NoCopy]
        /\ t.up = s.up /\ t.reading = s.reading
        /\ t.held = s.held /\ t.failed = s.failed /\ t.nfailed = s.nfailed
    BY <1>1 DEF Store
  <1> QED BY <1>2, <1>4, <1>5, StoreFields DEF t

LEMMA WithoutIs ==
    ASSUME NEW s \in Store, NEW gone
    PROVE  LET t == Without(s, gone)
           IN  /\ t \in Store
               /\ t.up = s.up /\ t.reading = s.reading
               /\ t.held = s.held /\ t.failed = s.failed /\ t.nfailed = s.nfailed
               /\ \A k \in Names : IF k \in gone THEN t.closed[k] = Absent /\ t.writing[k].is = "NONE"
                                   ELSE t.closed[k] = s.closed[k] /\ t.writing[k] = s.writing[k]
  <1> DEFINE t == Without(s, gone)
             closed == [n \in Names |-> IF n \in gone THEN Absent ELSE s.closed[n]]
             writing == [n \in Names |-> IF n \in gone THEN NoCopy ELSE s.writing[n]]
  <1>1. t = [s EXCEPT !.closed = closed, !.writing = writing]
    BY DEF Without, Store
  <1>2. NoCopy \in [is: {"NONE", "OPEN", "LEFT"}, got: Content] /\ NoCopy.is = "NONE" /\ Absent \in Content
    BY StoreConstants DEF NoCopy, Absent, Content
  <1>3. closed \in [Names -> Content] /\ writing \in [Names -> [is: {"NONE", "OPEN", "LEFT"}, got: Content]]
    BY <1>2, StoreFields
  <1>4. \A k \in Names : /\ closed[k] = IF k \in gone THEN Absent ELSE s.closed[k]
                         /\ writing[k] = IF k \in gone THEN NoCopy ELSE s.writing[k]
    OBVIOUS
  <1> HIDE DEF t, closed, writing
  <1>5. t \in Store /\ t.closed = closed /\ t.writing = writing /\ t.up = s.up /\ t.reading = s.reading
        /\ t.held = s.held /\ t.failed = s.failed /\ t.nfailed = s.nfailed
    BY <1>1, <1>3 DEF Store
  <1> QED BY <1>2, <1>4, <1>5 DEF t

LEMMA MountedIs ==
    ASSUME NEW s \in Store
    PROVE  LET t == Mounted(s)
           IN  /\ t \in Store
               /\ t.up /\ t.closed = s.closed
               /\ t.held = s.held /\ t.failed = s.failed /\ t.nfailed = s.nfailed
               /\ \A r \in Readers : t.reading[r] = NoName
               /\ \A k \in Names : t.writing[k].is /= "OPEN"
               /\ Fewer(t, s)
  <1> DEFINE t == Mounted(s)
             Copy1 == [is: {"NONE", "OPEN", "LEFT"}, got: Content]
             left(x) == IF x.is = "OPEN" THEN [is |-> "LEFT", got |-> [x.got EXCEPT !.whole = FALSE]] ELSE x
             writing == [n \in Names |-> left(s.writing[n])]
             reading == [r \in Readers |-> NoName]
  <1>1. t = [s EXCEPT !.up = TRUE, !.writing = writing, !.reading = reading]
    BY DEF Mounted, Store
  <1>2. \A x \in Copy1 : /\ left(x) \in Copy1 /\ left(x).is /= "OPEN"
                         /\ left(x).is = "NONE" <=> x.is = "NONE"
                         /\ left(x).got.version = x.got.version
    BY DEF Content
  <1>3. \A n \in Names : s.writing[n] \in Copy1
    BY StoreFields
  <1> HIDE DEF Copy1, left
  <1>4. /\ writing \in [Names -> Copy1] /\ reading \in [Readers -> Names \cup {NoName}]
        /\ \A n \in Names : /\ writing[n].is /= "OPEN" /\ (writing[n].is = "NONE" <=> s.writing[n].is = "NONE")
                            /\ writing[n].got.version = s.writing[n].got.version
        /\ \A r \in Readers : reading[r] = NoName
    BY <1>2, <1>3
  <1> HIDE DEF writing, reading, t
  <1>5. /\ t \in Store /\ t.up /\ t.writing = writing /\ t.reading = reading
        /\ t.closed = s.closed /\ t.held = s.held /\ t.failed = s.failed /\ t.nfailed = s.nfailed
    BY <1>1, <1>4 DEF Store, Copy1
  <1> QED BY <1>4, <1>5 DEF t, Fewer

LEMMA FailedIs ==
    ASSUME NEW s \in Store, NEW n \in Names, NEW remove \in BOOLEAN
    PROVE  LET t == Failed(s, n, remove)
           IN  /\ t \in Store
               /\ t.up = s.up /\ t.closed = s.closed /\ t.writing = s.writing /\ t.reading = s.reading
               /\ t.held = s.held
               /\ t.failed \in {s.failed, s.failed \cup {[name |-> n, remove |-> remove]}}
  <1> DEFINE t == Failed(s, n, remove)
             more == s.failed \cup {[name |-> n, remove |-> remove]}
  <1>1. t = [s EXCEPT !.nfailed = s.nfailed + 1, !.failed = IF s.nfailed < FailedNames THEN more ELSE s.failed]
    BY DEF Failed, Store
  <1>2. more \in SUBSET [name: Names, remove: BOOLEAN]
    BY StoreFields
  <1> HIDE DEF t, more
  <1>3. \/ t = [s EXCEPT !.nfailed = s.nfailed + 1, !.failed = more]
        \/ t = [s EXCEPT !.nfailed = s.nfailed + 1, !.failed = s.failed]
    BY <1>1
  <1>4. t.failed \in {s.failed, more} /\ t.up = s.up /\ t.closed = s.closed
        /\ t.writing = s.writing /\ t.reading = s.reading /\ t.held = s.held
    BY <1>3 DEF Store
  <1>5. ASSUME NEW k \in SUBSET [name: Names, remove: BOOLEAN],
               t = [s EXCEPT !.nfailed = s.nfailed + 1, !.failed = k]
        PROVE  t \in Store
    <2>1. s.nfailed + 1 \in Nat
      BY StoreFields
    <2> DEFINE more_n == s.nfailed + 1
    <2>2. t = [s EXCEPT !.nfailed = more_n, !.failed = k] /\ more_n \in Nat
      BY <1>5, <2>1
    <2> HIDE DEF more_n
    <2> QED BY <1>5, <2>2 DEF Store
  <1>6. s.failed \in SUBSET [name: Names, remove: BOOLEAN]
    BY StoreFields
  <1> QED BY <1>2, <1>3, <1>4, <1>5, <1>6 DEF t, more

\* What letting go makes of a store: nothing, one left down, or one mounted with
\* the failed writers' marked files gone.
LEMMA LetGoIs ==
    ASSUME NEW s \in Store, NEW t \in LetGo(s)
    PROVE  \/ t = s
           \/ /\ s.held = 0 /\ t \in Store /\ ~t.up
              /\ t.closed = s.closed /\ t.writing = s.writing /\ t.reading = s.reading
              /\ t.held = s.held /\ t.failed = s.failed
           \/ /\ s.held = 0 /\ t \in Store /\ t.up
              /\ \A k \in Names : t.closed[k] =
                    IF \E f \in s.failed : f.remove /\ f.name = k THEN Absent ELSE s.closed[k]
              /\ \A r \in Readers : t.reading[r] = NoName
              /\ t.held = 0 /\ t.failed = {}
  <1> DEFINE gone == {f.name : f \in {g \in s.failed : g.remove}}
  <1>1. CASE s.nfailed = 0 \/ s.held > 0
    BY <1>1 DEF LetGo
  <1>2. CASE ~(s.nfailed = 0 \/ s.held > 0)
    <2>1. s.held = 0 /\ s.nfailed /= 0
      BY <1>2, StoreFields
    <2>2. \/ t = [s EXCEPT !.up = FALSE]
          \/ t = [Without(Mounted(s), gone) EXCEPT !.failed = {}, !.nfailed = 0]
      BY <1>2 DEF LetGo
    <2>3. CASE t = [s EXCEPT !.up = FALSE]
      BY <2>1, <2>3 DEF Store
    <2>4. CASE t = [Without(Mounted(s), gone) EXCEPT !.failed = {}, !.nfailed = 0]
      <3>1. PICK m \in Store : m = Mounted(s)
        BY MountedIs
      <3>2. PICK u \in Store : u = Without(m, gone)
        BY WithoutIs
      <3>3. /\ m.up /\ m.closed = s.closed /\ m.held = s.held /\ \A r \in Readers : m.reading[r] = NoName
        BY <3>1, MountedIs
      <3>4. /\ u.up = m.up /\ u.reading = m.reading /\ u.held = m.held
            /\ \A k \in Names : u.closed[k] = IF k \in gone THEN Absent ELSE m.closed[k]
        BY <3>2, WithoutIs
      <3>5. t = [u EXCEPT !.failed = {}, !.nfailed = 0]
        BY <2>4, <3>1, <3>2
      <3>6. /\ t \in Store /\ t.failed = {} /\ t.up = u.up /\ t.closed = u.closed
            /\ t.reading = u.reading /\ t.held = u.held
        BY <3>5 DEF Store
      <3>7. \A k : k \in gone <=> \E f \in s.failed : f.remove /\ f.name = k
        OBVIOUS
      <3> HIDE DEF gone
      <3> QED BY <2>1, <3>3, <3>4, <3>6, <3>7
    <2> QED BY <2>2, <2>3, <2>4
  <1> QED BY <1>1, <1>2

-----------------------------------------------------------------------------
(* Counting the handles *)

LEMMA KeptIs == Dest \in Kept /\ Pad \in Kept /\ Part \notin Kept /\ \A n : n \in Kept <=> n = Dest \/ n = Pad
  BY NamesIs DEF Kept

\* A reader that opens a file is one more, one that lets it go one fewer.
LEMMA OpenAdds ==
    ASSUME NEW s \in Store, NEW t \in Store, NEW r \in Readers, NEW n \in Names,
           s.reading[r] = NoName, t.reading = [s.reading EXCEPT ![r] = n], IsFiniteSet(Open(s))
    PROVE  IsFiniteSet(Open(t)) /\ Cardinality(Open(t)) = Cardinality(Open(s)) + 1
  <1>1. Open(t) = Open(s) \cup {r} /\ r \notin Open(s)
    BY NamesIs, StoreFields DEF Open
  <1> QED BY <1>1, FS_AddElement

LEMMA OpenDrops ==
    ASSUME NEW s \in Store, NEW t \in Store, NEW r \in Readers,
           s.reading[r] /= NoName, t.reading = [s.reading EXCEPT ![r] = NoName], IsFiniteSet(Open(s))
    PROVE  IsFiniteSet(Open(t)) /\ Cardinality(Open(t)) = Cardinality(Open(s)) - 1
  <1>1. Open(t) = Open(s) \ {r} /\ r \in Open(s)
    BY NamesIs, StoreFields DEF Open
  <1> QED BY <1>1, FS_RemoveElement

LEMMA OpenSame ==
    ASSUME NEW s, NEW t, s.reading = t.reading
    PROVE  Open(s) = Open(t)
  BY DEF Open

LEMMA OpenNone ==
    ASSUME NEW s, \A r \in Readers : s.reading[r] = NoName
    PROVE  Open(s) = {} /\ IsFiniteSet(Open(s)) /\ Cardinality(Open(s)) = 0
  BY FS_EmptySet DEF Open

\* With no handle counted, nobody has one.
LEMMA NoneHeld ==
    ASSUME NEW s, NEW cn, NEW w, NEW v, NEW m, NEW sp, NEW late,
           StoreOK(s, cn, w, v, m, sp, late), s.held = 0
    PROVE  Up(cn) = {} /\ Open(s) = {} /\ w.at = "IDLE" /\ late = 0
  <1> DEFINE a == IF Up(cn) = {} THEN 0 ELSE 1
             b == Cardinality(Open(s))
             d == IF w.at = "IDLE" THEN 0 ELSE 1
  <1>1. s.held = a + b + d + late /\ IsFiniteSet(Open(s)) /\ late \in Nat
    BY DEF StoreOK, HandlesInv, Typed
  <1>2. b \in Nat
    BY <1>1, FS_CardinalityType
  <1>3. a \in {0, 1} /\ d \in {0, 1} /\ (a = 0 => Up(cn) = {}) /\ (d = 0 => w.at = "IDLE")
    OBVIOUS
  <1>4. b = 0 => Open(s) = {}
    BY <1>1, FS_EmptySet
  <1> HIDE DEF a, b, d
  <1>5. a = 0 /\ b = 0 /\ d = 0 /\ late = 0
    BY <1>1, <1>2, <1>3
  <1> QED BY <1>3, <1>4, <1>5

\* Letting the failed writers go costs nobody a handle or a file.
LEMMA LetGoKeeps ==
    ASSUME NEW s, NEW cn, NEW w, NEW v, NEW m, NEW sp, NEW late,
           StoreOK(s, cn, w, v, m, sp, late), NEW t \in LetGo(s)
    PROVE  /\ StoreOK(t, cn, w, v, m, sp, late) /\ t.closed[Pad] = s.closed[Pad]
           /\ \/ t.closed[Dest] = s.closed[Dest]
              \/ t.closed[Dest] = Absent /\ \E f \in s.failed : f.name = Dest
  <1>0. s \in Store /\ Typed(cn, w, v, m, sp, late)
    BY DEF StoreOK
  <1>1. CASE t = s
    BY <1>1
  <1>2. CASE /\ s.held = 0 /\ t \in Store /\ ~t.up
             /\ t.closed = s.closed /\ t.writing = s.writing /\ t.reading = s.reading
             /\ t.held = s.held /\ t.failed = s.failed
    <2>1. Open(t) = Open(s)
      BY <1>2, OpenSame
    <2>2. HandlesInv(t, cn, w, late)
      BY <1>2, <2>1 DEF StoreOK, HandlesInv
    <2>3. VersionsInv(t, cn, w, v) /\ RenameInv(t, cn)
      BY <1>2 DEF StoreOK, VersionsInv, RenameInv
    <2>4. ContentInv(t, m, sp)
      BY <1>2 DEF StoreOK, ContentInv, GoodIn
    <2> QED BY <1>0, <1>2, <2>2, <2>3, <2>4 DEF StoreOK
  <1>3. CASE /\ s.held = 0 /\ t \in Store /\ t.up
             /\ \A k \in Names : t.closed[k] =
                   IF \E f \in s.failed : f.remove /\ f.name = k THEN Absent ELSE s.closed[k]
             /\ \A r \in Readers : t.reading[r] = NoName
             /\ t.held = 0 /\ t.failed = {}
    <2>1. Up(cn) = {} /\ w.at = "IDLE" /\ late = 0
      BY <1>3, NoneHeld
    <2>2. Open(t) = {} /\ IsFiniteSet(Open(t)) /\ Cardinality(Open(t)) = 0
      BY <1>3, OpenNone
    <2>3. HandlesInv(t, cn, w, late)
      <3>1. \A c, d \in Conns : cn[c].at /= "IDLE" /\ cn[d].at /= "IDLE" => c = d
        BY DEF StoreOK, HandlesInv
      <3> QED BY <1>3, <2>1, <2>2, <3>1 DEF HandlesInv
    <2>4. \A k \in Names : t.closed[k] = s.closed[k] \/ t.closed[k].version = 0
      BY <1>3 DEF Absent
    <2>5. VersionsInv(t, cn, w, v)
      <3>1. \A n \in Names : t.closed[n].version <= v
        BY <1>0, <2>4 DEF StoreOK, VersionsInv, Typed
      <3>2. \A c \in Conns : cn[c].at \in {"BODY", "WHOLE", "SHORT", "RENAME"} =>
                /\ cn[c].version \in 1 .. v
                /\ \A n \in Kept : s.closed[n].version /= cn[c].version
        BY DEF StoreOK, VersionsInv
      <3>3. \A c \in Conns : cn[c].at \in {"BODY", "WHOLE", "SHORT", "RENAME"} =>
                /\ cn[c].version \in 1 .. v
                /\ \A n \in Kept : t.closed[n].version /= cn[c].version
        BY <2>4, <3>2, NamesIs, KeptIs
      <3> QED BY <2>1, <3>1, <3>3 DEF VersionsInv
    <2>6. RenameInv(t, cn)
      BY <1>3, NamesIs DEF StoreOK, RenameInv
    <2>7. ContentInv(t, m, sp)
      <3>1. \A f \in s.failed : f.remove => f.name /= Pad /\ (f.name = Dest => Dest \in sp \/ 0 \in m[Dest])
        BY DEF StoreOK, ContentInv
      <3>2. \A n \in Kept : n \in sp \/ GoodIn(s, m, n)
        BY DEF StoreOK, ContentInv
      <3>3. \A n \in Kept : n \in sp \/ GoodIn(t, m, n)
        <4> TAKE n \in Kept
        <4>1. n \in Names
          BY NamesIs, KeptIs
        <4>2. CASE t.closed[n] = s.closed[n]
          BY <3>2, <4>2 DEF GoodIn
        <4>3. CASE t.closed[n] /= s.closed[n]
          <5>1. t.closed[n] = Absent /\ n = Dest /\ (Dest \in sp \/ 0 \in m[Dest])
            BY <1>3, <3>1, <4>1, <4>3, KeptIs
          <5> QED BY <5>1 DEF GoodIn
        <4> QED BY <4>2, <4>3
      <3> QED BY <1>3, <3>3 DEF ContentInv
    <2>8. t.closed[Pad] = s.closed[Pad]
      BY <1>3, NamesIs DEF StoreOK, ContentInv
    <2>9. \/ t.closed[Dest] = s.closed[Dest]
          \/ t.closed[Dest] = Absent /\ \E f \in s.failed : f.name = Dest
      BY <1>3, NamesIs
    <2> QED BY <1>0, <1>3, <2>3, <2>5, <2>6, <2>7, <2>8, <2>9 DEF StoreOK
  <1> QED BY <1>0, <1>1, <1>2, <1>3, LetGoIs

-----------------------------------------------------------------------------
(* Closing a writer *)

Moved(cn, c, a) == [cn EXCEPT ![c].at = a]
OneLess(s) == [s EXCEPT !.held = s.held - 1]

LEMMA LeftIs ==
    ASSUME NEW s \in Store, NEW k \in Nat
    PROVE  LET t == [s EXCEPT !.held = k]
           IN  /\ t \in Store
               /\ t.up = s.up /\ t.closed = s.closed /\ t.writing = s.writing /\ t.reading = s.reading
               /\ t.held = k /\ t.failed = s.failed /\ t.nfailed = s.nfailed
  BY DEF Store

LEMMA OneHeld ==
    ASSUME NEW s, NEW cn, NEW w, NEW v, NEW m, NEW sp, NEW late,
           StoreOK(s, cn, w, v, m, sp, late), Up(cn) /= {} \/ w.at /= "IDLE" \/ Open(s) /= {}
    PROVE  s.held - 1 \in Nat
  <1>1. s.held \in Nat
    BY DEF StoreOK, Store
  <1>2. s.held /= 0
    BY NoneHeld
  <1> QED BY <1>1, <1>2

\* An upload whose writer is closed: its part file is there whole or is to be removed.
LEMMA ClosePart ==
    ASSUME NEW s, NEW cn, NEW w, NEW v, NEW m, NEW sp, NEW late, NEW c, NEW a,
           StoreOK(s, cn, w, v, m, sp, late),
           c \in Conns, cn[c].at \in {"BODY", "WHOLE", "SHORT"}, a \in {"RENAME", "REMOVE"}
    PROVE  /\ a = "REMOVE" \/ cn[c].at = "WHOLE" =>
                  /\ StoreOK(Committed(OneLess(s), Part), Moved(cn, c, a), w, v, m, sp, late)
                  /\ Committed(OneLess(s), Part).closed[Pad] = s.closed[Pad]
           /\ a = "REMOVE" =>
                  /\ StoreOK(Failed(OneLess(s), Part, FALSE), Moved(cn, c, a), w, v, m, sp, late)
                  /\ Failed(OneLess(s), Part, FALSE).closed[Pad] = s.closed[Pad]
                  /\ StoreOK(s, Moved(cn, c, a), w, v, m, sp, late + 1)
  <1> DEFINE left == OneLess(s)
             dn == Moved(cn, c, a)
  <1>1. s \in Store /\ Typed(cn, w, v, m, sp, late) /\ late \in Nat /\ cn \in ConnType
    BY DEF StoreOK, Typed
  <1>2. Up(cn) /= {} /\ c \in Up(cn)
    BY DEF Up
  <1>3. s.held - 1 \in Nat
    BY <1>2, OneHeld
  <1>4. /\ left \in Store
        /\ left.up = s.up /\ left.closed = s.closed /\ left.writing = s.writing /\ left.reading = s.reading
        /\ left.held = s.held - 1 /\ left.failed = s.failed
    BY <1>1, <1>3, LeftIs DEF OneLess
  <1>5. dn \in ConnType /\ dn[c].at = a /\ dn[c].version = cn[c].version /\ \A d \in Conns : d /= c => dn[d] = cn[d]
    BY <1>1 DEF ConnType, Moved
  <1> HIDE DEF left, dn
  <1>6. \A d, e \in Conns : cn[d].at /= "IDLE" /\ cn[e].at /= "IDLE" => d = e
    BY DEF StoreOK, HandlesInv
  <1>7. \A d \in Conns : d /= c => dn[d].at = "IDLE"
    BY <1>5, <1>6
  <1>8. Up(dn) = {}
    BY <1>5, <1>7 DEF Up
  <1>9. \A d, e \in Conns : dn[d].at /= "IDLE" /\ dn[e].at /= "IDLE" => d = e
    BY <1>7
  <1>10. /\ s.writing[Part].is = "OPEN" /\ s.writing[Part].got.version = cn[c].version
         /\ cn[c].at = "WHOLE" => s.writing[Part].got.whole
         /\ \A f \in s.failed : f.name /= Part
    BY <1>2 DEF StoreOK, HandlesInv
  <1>11. /\ IsFiniteSet(Open(s))
         /\ s.held = 1 + Cardinality(Open(s)) + (IF w.at = "IDLE" THEN 0 ELSE 1) + late
    BY <1>2 DEF StoreOK, HandlesInv
  <1>12. w.at /= "IDLE" =>
             /\ s.writing[w.name].is = "OPEN" /\ s.writing[w.name].got.version = w.version
             /\ w.at = "WROTE" => s.writing[w.name].got.whole
    BY DEF StoreOK, HandlesInv
  <1>13. \A f \in s.failed : /\ s.up => s.writing[f.name].is = "OPEN"
                             /\ f.name = w.name => w.at = "IDLE"
    BY DEF StoreOK, HandlesInv
  <1>14. w.name \in Kept /\ w.name \in Names /\ w.name /= Part /\ Part \in Names
    BY <1>1, NamesIs, KeptIs DEF Typed, WholeType
  <1>15. Typed(dn, w, v, m, sp, late) /\ Typed(dn, w, v, m, sp, late + 1)
    BY <1>1, <1>5 DEF Typed
  <1>16. Cardinality(Open(s)) \in Nat /\ (IF w.at = "IDLE" THEN 0 ELSE 1) \in Nat
    BY <1>11, FS_CardinalityType
  <1>17. /\ \A n \in Names : s.closed[n].version <= v
         /\ w.at /= "IDLE" => w.version \in 1 .. v
         /\ cn[c].version \in 1 .. v
         /\ \A n \in Kept : s.closed[n].version /= cn[c].version
         /\ w.at /= "IDLE" => w.version /= cn[c].version
    BY DEF StoreOK, VersionsInv
  <1>18. ASSUME NEW t \in Store, \A n \in Kept : t.closed[n] = s.closed[n],
                t.closed[Part] \in {s.closed[Part], s.writing[Part].got}
         PROVE  VersionsInv(t, dn, w, v)
    <2>1. \A n \in Names : t.closed[n].version <= v
      <3>1. s.closed[Part].version <= v /\ s.closed[Dest].version <= v /\ s.closed[Pad].version <= v
        BY <1>17, NamesIs
      <3>2. s.writing[Part].got.version <= v
        BY <1>1, <1>10, <1>17 DEF Typed
      <3> QED BY <1>18, <3>1, <3>2, NamesIs, KeptIs
    <2>2. \A d \in Conns : dn[d].at \in {"BODY", "WHOLE", "SHORT", "RENAME"} =>
              /\ dn[d].version \in 1 .. v
              /\ \A n \in Kept : t.closed[n].version /= dn[d].version
              /\ w.at /= "IDLE" => w.version /= dn[d].version
      BY <1>5, <1>7, <1>17, <1>18
    <2> QED BY <1>17, <2>1, <2>2 DEF VersionsInv
  <1>19. ASSUME NEW t \in Store, \A n \in Kept : t.closed[n] = s.closed[n], NEW n \in Names,
                t.failed \in {s.failed, s.failed \cup {[name |-> n, remove |-> FALSE]}}
         PROVE  ContentInv(t, m, sp)
    <2>1. \A k \in Kept : k \in sp \/ GoodIn(t, m, k)
      BY <1>19 DEF StoreOK, ContentInv, GoodIn
    <2>2. \A f \in s.failed : f.remove => f.name /= Pad /\ (f.name = Dest => Dest \in sp \/ 0 \in m[Dest])
      BY DEF StoreOK, ContentInv
    <2> QED BY <1>19, <2>1, <2>2 DEF ContentInv
  <1>20. ASSUME a = "REMOVE" \/ cn[c].at = "WHOLE"
         PROVE  /\ StoreOK(Committed(left, Part), dn, w, v, m, sp, late)
                /\ Committed(left, Part).closed[Pad] = s.closed[Pad]
    <2> DEFINE t == Committed(left, Part)
    <2>1. /\ t \in Store
          /\ t.up = s.up /\ t.reading = s.reading /\ t.held = s.held - 1 /\ t.failed = s.failed
          /\ t.closed[Part] = s.writing[Part].got
          /\ \A k \in Names : k /= Part => t.closed[k] = s.closed[k] /\ t.writing[k] = s.writing[k]
      <3>1. /\ t \in Store
            /\ t.up = left.up /\ t.reading = left.reading /\ t.held = left.held /\ t.failed = left.failed
            /\ t.closed[Part] = left.writing[Part].got
            /\ \A k \in Names : k /= Part => t.closed[k] = left.closed[k] /\ t.writing[k] = left.writing[k]
        BY <1>4, <1>14, CommittedIs
      <3> HIDE DEF t
      <3> QED BY <1>4, <3>1
    <2> HIDE DEF t
    <2>2. Open(t) = Open(s)
      BY <2>1, OpenSame
    <2>3. HandlesInv(t, dn, w, late)
      <3>1. t.held = 0 + Cardinality(Open(t)) + (IF w.at = "IDLE" THEN 0 ELSE 1) + late
        BY <1>1, <1>11, <1>16, <2>1, <2>2
      <3>2. w.at /= "IDLE" =>
                /\ t.writing[w.name].is = "OPEN" /\ t.writing[w.name].got.version = w.version
                /\ w.at = "WROTE" => t.writing[w.name].got.whole
        BY <1>12, <1>14, <2>1
      <3>3. \A f \in t.failed : /\ t.up => t.writing[f.name].is = "OPEN"
                                /\ f.name = w.name => w.at = "IDLE"
        BY <1>1, <1>10, <1>13, <2>1, StoreFields
      <3> QED BY <1>8, <1>9, <1>11, <2>2, <3>1, <3>2, <3>3 DEF HandlesInv
    <2>4. \A n \in Kept : t.closed[n] = s.closed[n]
      BY <2>1, NamesIs, KeptIs
    <2>5. VersionsInv(t, dn, w, v) /\ ContentInv(t, m, sp)
      BY <1>14, <1>18, <1>19, <2>1, <2>4
    <2>6. RenameInv(t, dn)
      <3>1. ASSUME a = "RENAME"
            PROVE  t.closed[Part] = Bytes(cn[c].version, TRUE)
        <4>1. s.writing[Part].got \in Content /\ s.writing[Part].got.whole
          BY <1>1, <1>10, <1>14, <1>20, <3>1, StoreFields
        <4> QED BY <1>10, <2>1, <4>1 DEF Content, Bytes
      <3>2. \A f \in t.failed : f.name /= Part
        BY <1>10, <2>1
      <3>3. \A d \in Conns : dn[d].at = "RENAME" => d = c /\ a = "RENAME"
        BY <1>5, <1>7
      <3> QED BY <1>5, <3>1, <3>2, <3>3 DEF RenameInv
    <2>7. StoreOK(t, dn, w, v, m, sp, late)
      BY <1>15, <2>1, <2>3, <2>5, <2>6 DEF StoreOK
    <2>8. t.closed[Pad] = s.closed[Pad]
      BY <2>4, KeptIs
    <2> QED BY <2>7, <2>8 DEF t
  <1>21. ASSUME a = "REMOVE"
         PROVE  /\ StoreOK(Failed(left, Part, FALSE), dn, w, v, m, sp, late)
                /\ Failed(left, Part, FALSE).closed[Pad] = s.closed[Pad]
    <2> DEFINE t == Failed(left, Part, FALSE)
    <2>1. /\ t \in Store
          /\ t.up = s.up /\ t.closed = s.closed /\ t.writing = s.writing /\ t.reading = s.reading
          /\ t.held = s.held - 1
          /\ t.failed \in {s.failed, s.failed \cup {[name |-> Part, remove |-> FALSE]}}
      BY <1>4, <1>14, FailedIs
    <2> HIDE DEF t
    <2>2. Open(t) = Open(s)
      BY <2>1, OpenSame
    <2>3. HandlesInv(t, dn, w, late)
      <3>1. t.held = 0 + Cardinality(Open(t)) + (IF w.at = "IDLE" THEN 0 ELSE 1) + late
        BY <1>1, <1>11, <1>16, <2>1, <2>2
      <3>2. \A f \in t.failed : f \in s.failed \/ f = [name |-> Part, remove |-> FALSE]
        BY <2>1
      <3>3. \A f \in t.failed : /\ t.up => t.writing[f.name].is = "OPEN"
                                /\ f.name = w.name => w.at = "IDLE"
        BY <1>10, <1>13, <1>14, <2>1, <3>2
      <3> QED BY <1>8, <1>9, <1>11, <1>12, <2>1, <2>2, <3>1, <3>3 DEF HandlesInv
    <2>4. VersionsInv(t, dn, w, v) /\ ContentInv(t, m, sp)
      BY <1>14, <1>18, <1>19, <2>1
    <2>5. RenameInv(t, dn)
      BY <1>5, <1>7, <1>21 DEF RenameInv
    <2>6. StoreOK(t, dn, w, v, m, sp, late)
      BY <1>15, <2>1, <2>3, <2>4, <2>5 DEF StoreOK
    <2> QED BY <2>1, <2>6 DEF t
  <1>22. ASSUME a = "REMOVE"
         PROVE  StoreOK(s, dn, w, v, m, sp, late + 1)
    <2>1. HandlesInv(s, dn, w, late + 1)
      <3>1. s.held = 0 + Cardinality(Open(s)) + (IF w.at = "IDLE" THEN 0 ELSE 1) + (late + 1)
        BY <1>1, <1>11, <1>16
      <3> QED BY <1>8, <1>9, <1>11, <1>12, <1>13, <3>1 DEF HandlesInv
    <2>2. VersionsInv(s, dn, w, v) /\ ContentInv(s, m, sp)
      BY <1>1, <1>14, <1>18, <1>19
    <2>3. RenameInv(s, dn)
      BY <1>5, <1>7, <1>22 DEF RenameInv
    <2> QED BY <1>1, <1>15, <2>1, <2>2, <2>3 DEF StoreOK
  <1> QED BY <1>20, <1>21, <1>22 DEF left, dn

\* A whole-file write that is closed: done, its file is what it wrote, and a
\* write cut short spoils the name; failed or late, the file is what it was.
Shut(w) == [w EXCEPT !.at = "IDLE"]
CloseLeaves(s, cn, w, v, m, sp, late) ==
    LET n == w.name
        done == Committed(OneLess(s), n)
        failed == Failed(OneLess(s), n, FALSE)
    IN  /\ w.at = "WROTE" => StoreOK(done, cn, Shut(w), v, [m EXCEPT ![n] = {w.version}], sp \ {n}, late)
        /\ w.at = "SHORT" => StoreOK(done, cn, Shut(w), v, m, sp \cup {n}, late)
        /\ done.closed[n].version = w.version
        /\ n /= Pad => done.closed[Pad] = s.closed[Pad]
        /\ StoreOK(failed, cn, Shut(w), v, m, sp, late)
        /\ failed.closed[Pad] = s.closed[Pad]
        /\ StoreOK(s, cn, Shut(w), v, m, sp, late + 1)

LEMMA CloseWhole ==
    ASSUME NEW s, NEW cn, NEW w, NEW v, NEW m, NEW sp, NEW late,
           StoreOK(s, cn, w, v, m, sp, late), w.at \in {"WROTE", "SHORT"}
    PROVE  CloseLeaves(s, cn, w, v, m, sp, late)
  <1> DEFINE dw == Shut(w)
             n == w.name
             left == OneLess(s)
  <1>1. s \in Store /\ Typed(cn, w, v, m, sp, late) /\ late \in Nat /\ w \in WholeType /\ w.at /= "IDLE"
    BY DEF StoreOK, Typed
  <1>2. s.held - 1 \in Nat
    BY <1>1, OneHeld
  <1>3. /\ left \in Store
        /\ left.up = s.up /\ left.closed = s.closed /\ left.writing = s.writing /\ left.reading = s.reading
        /\ left.held = s.held - 1 /\ left.failed = s.failed
    BY <1>1, <1>2, LeftIs DEF OneLess
  <1>4. dw \in WholeType /\ dw.at = "IDLE"
    BY <1>1 DEF WholeType, Shut
  <1>5. n \in Kept /\ n \in Names /\ n /= Part
    BY <1>1, NamesIs, KeptIs DEF WholeType
  <1>6. \A c, d \in Conns : cn[c].at /= "IDLE" /\ cn[d].at /= "IDLE" => c = d
    BY DEF StoreOK, HandlesInv
  <1> HIDE DEF left, dw
  <1>7. /\ s.writing[n].is = "OPEN" /\ s.writing[n].got.version = w.version
        /\ w.at = "WROTE" => s.writing[n].got.whole
        /\ \A f \in s.failed : f.name /= n
    BY <1>1 DEF StoreOK, HandlesInv
  <1>8. /\ IsFiniteSet(Open(s))
        /\ s.held = (IF Up(cn) = {} THEN 0 ELSE 1) + Cardinality(Open(s)) + 1 + late
    BY <1>1 DEF StoreOK, HandlesInv
  <1>9. \A c \in Up(cn) :
            /\ s.writing[Part].is = "OPEN" /\ s.writing[Part].got.version = cn[c].version
            /\ cn[c].at = "WHOLE" => s.writing[Part].got.whole
    BY DEF StoreOK, HandlesInv
  <1>10. \A f \in s.failed : /\ s.up => s.writing[f.name].is = "OPEN"
                             /\ f.name = Part => Up(cn) = {}
    BY DEF StoreOK, HandlesInv
  <1>11. Cardinality(Open(s)) \in Nat /\ (IF Up(cn) = {} THEN 0 ELSE 1) \in Nat
    BY <1>8, FS_CardinalityType
  <1>12. /\ \A k \in Names : s.closed[k].version <= v
         /\ w.version \in 1 .. v
         /\ \A c \in Conns : cn[c].at \in {"BODY", "WHOLE", "SHORT", "RENAME"} =>
                /\ cn[c].version \in 1 .. v
                /\ \A k \in Kept : s.closed[k].version /= cn[c].version
                /\ w.version /= cn[c].version
    BY <1>1 DEF StoreOK, VersionsInv
  <1>13. /\ Typed(cn, dw, v, m, sp, late) /\ Typed(cn, dw, v, m, sp, late + 1)
         /\ Typed(cn, dw, v, m, sp \cup {n}, late)
         /\ Typed(cn, dw, v, [m EXCEPT ![n] = {w.version}], sp \ {n}, late)
    <2>1. w.version \in 0 .. MaxVersion
      BY <1>1 DEF WholeType
    <2> QED BY <1>1, <1>4, <1>5, <2>1 DEF Typed, MayType
  <1>14. VersionsInv(s, cn, dw, v)
    BY <1>4, <1>12 DEF VersionsInv
  <1>15. RenameInv(s, cn) /\ ContentInv(s, m, sp)
    BY DEF StoreOK
  <1>16. /\ w.at = "WROTE" =>
               StoreOK(Committed(left, n), cn, dw, v, [m EXCEPT ![n] = {w.version}], sp \ {n}, late)
         /\ w.at = "SHORT" => StoreOK(Committed(left, n), cn, dw, v, m, sp \cup {n}, late)
         /\ Committed(left, n).closed[n].version = w.version
         /\ n /= Pad => Committed(left, n).closed[Pad] = s.closed[Pad]
    <2> DEFINE t == Committed(left, n)
               m2 == [m EXCEPT ![n] = {w.version}]
    <2>1. /\ t \in Store
          /\ t.up = s.up /\ t.reading = s.reading /\ t.held = s.held - 1 /\ t.failed = s.failed
          /\ t.closed[n] = s.writing[n].got
          /\ \A k \in Names : k /= n => t.closed[k] = s.closed[k] /\ t.writing[k] = s.writing[k]
      <3>1. /\ t \in Store
            /\ t.up = left.up /\ t.reading = left.reading /\ t.held = left.held /\ t.failed = left.failed
            /\ t.closed[n] = left.writing[n].got
            /\ \A k \in Names : k /= n => t.closed[k] = left.closed[k] /\ t.writing[k] = left.writing[k]
        BY <1>3, <1>5, CommittedIs
      <3> HIDE DEF t
      <3> QED BY <1>3, <3>1
    <2> HIDE DEF t
    <2>2. Open(t) = Open(s)
      BY <2>1, OpenSame
    <2>3. HandlesInv(t, cn, dw, late)
      <3>1. t.held = (IF Up(cn) = {} THEN 0 ELSE 1) + Cardinality(Open(t)) + 0 + late
        BY <1>1, <1>8, <1>11, <2>1, <2>2
      <3>2. \A c \in Up(cn) :
                /\ t.writing[Part].is = "OPEN" /\ t.writing[Part].got.version = cn[c].version
                /\ cn[c].at = "WHOLE" => t.writing[Part].got.whole
        BY <1>5, <1>9, <2>1, NamesIs
      <3>3. \A f \in t.failed : /\ t.up => t.writing[f.name].is = "OPEN"
                                /\ f.name = Part => Up(cn) = {}
        BY <1>1, <1>7, <1>10, <2>1, StoreFields
      <3> QED BY <1>4, <1>6, <1>8, <2>2, <3>1, <3>2, <3>3 DEF HandlesInv
    <2>4. VersionsInv(t, cn, dw, v)
      <3>1. t.closed[n].version = w.version
        BY <1>7, <2>1
      <3>2. \A k \in Names : t.closed[k] = s.closed[k] \/ t.closed[k].version = w.version
        BY <2>1, <3>1
      <3>3. \A k \in Names : t.closed[k].version <= v
        BY <1>1, <1>12, <3>2 DEF Typed
      <3>4. \A c \in Conns : cn[c].at \in {"BODY", "WHOLE", "SHORT", "RENAME"} =>
                \A k \in Kept : t.closed[k].version /= cn[c].version
        BY <1>12, <3>2, NamesIs, KeptIs
      <3> QED BY <1>4, <1>12, <3>3, <3>4 DEF VersionsInv
    <2>5. RenameInv(t, cn)
      BY <1>5, <1>15, <2>1, NamesIs DEF RenameInv
    <2>6. /\ \A f \in t.failed : f.remove => f.name /= Pad /\ f.name /= n
          /\ \A f \in t.failed : f.remove /\ f.name = Dest => Dest \in sp \/ 0 \in m[Dest]
      BY <1>7, <1>15, <2>1 DEF ContentInv
    <2>7. \A k \in Kept : k /= n => k \in sp \/ GoodIn(t, m, k)
      BY <1>15, <2>1, NamesIs, KeptIs DEF ContentInv, GoodIn
    <2>8. ContentInv(t, m, sp \cup {n})
      BY <2>6, <2>7 DEF ContentInv
    <2>9. ASSUME w.at = "WROTE"
          PROVE  ContentInv(t, m2, sp \ {n})
      <3>1. t.closed[n].whole /\ t.closed[n].version = w.version /\ t.closed[n] /= Absent
        BY <1>7, <1>12, <2>1, <2>9 DEF Absent
      <3>2. m2[n] = {w.version} /\ \A k \in Kept : k /= n => m2[k] = m[k]
        BY <1>1, <1>5 DEF Typed, MayType
      <3> HIDE DEF m2
      <3>3. GoodIn(t, m2, n)
        BY <3>1, <3>2 DEF GoodIn
      <3>4. \A k \in Kept : k /= n => k \in sp \/ GoodIn(t, m2, k)
        BY <2>7, <3>2 DEF GoodIn
      <3>5. \A f \in t.failed : f.remove => f.name /= Pad /\ (f.name = Dest => Dest \in sp \ {n} \/ 0 \in m2[Dest])
        BY <2>6, <3>2, KeptIs
      <3> QED BY <3>3, <3>4, <3>5 DEF ContentInv
    <2>10. w.at = "WROTE" => StoreOK(t, cn, dw, v, m2, sp \ {n}, late)
      BY <1>13, <2>1, <2>3, <2>4, <2>5, <2>9 DEF StoreOK
    <2>11. StoreOK(t, cn, dw, v, m, sp \cup {n}, late)
      BY <1>13, <2>1, <2>3, <2>4, <2>5, <2>8 DEF StoreOK
    <2>12. t.closed[n].version = w.version /\ (n /= Pad => t.closed[Pad] = s.closed[Pad])
      BY <1>7, <2>1, NamesIs
    <2> QED BY <2>10, <2>11, <2>12 DEF t
  <1>17. /\ StoreOK(Failed(left, n, FALSE), cn, dw, v, m, sp, late)
         /\ Failed(left, n, FALSE).closed[Pad] = s.closed[Pad]
    <2> DEFINE t == Failed(left, n, FALSE)
    <2>1. /\ t \in Store
          /\ t.up = s.up /\ t.closed = s.closed /\ t.writing = s.writing /\ t.reading = s.reading
          /\ t.held = s.held - 1
          /\ t.failed \in {s.failed, s.failed \cup {[name |-> n, remove |-> FALSE]}}
      BY <1>3, <1>5, FailedIs
    <2> HIDE DEF t
    <2>2. Open(t) = Open(s)
      BY <2>1, OpenSame
    <2>3. \A f \in t.failed : f \in s.failed \/ f = [name |-> n, remove |-> FALSE]
      BY <2>1
    <2>4. HandlesInv(t, cn, dw, late)
      <3>1. t.held = (IF Up(cn) = {} THEN 0 ELSE 1) + Cardinality(Open(t)) + 0 + late
        BY <1>1, <1>8, <1>11, <2>1, <2>2
      <3>2. \A f \in t.failed : /\ t.up => t.writing[f.name].is = "OPEN"
                                /\ f.name = Part => Up(cn) = {}
        BY <1>5, <1>7, <1>10, <2>1, <2>3
      <3> QED BY <1>4, <1>6, <1>8, <1>9, <2>1, <2>2, <3>1, <3>2 DEF HandlesInv
    <2>5. VersionsInv(t, cn, dw, v)
      BY <1>14, <2>1 DEF VersionsInv
    <2>6. RenameInv(t, cn)
      <3>1. (\A f \in s.failed : f.name /= Part) => \A f \in t.failed : f.name /= Part
        BY <1>5, <2>3
      <3> QED BY <1>15, <2>1, <3>1 DEF RenameInv
    <2>7. ContentInv(t, m, sp)
      BY <1>15, <2>1, <2>3 DEF ContentInv, GoodIn
    <2>8. StoreOK(t, cn, dw, v, m, sp, late)
      BY <1>13, <2>1, <2>4, <2>5, <2>6, <2>7 DEF StoreOK
    <2> QED BY <2>1, <2>8 DEF t
  <1>18. StoreOK(s, cn, dw, v, m, sp, late + 1)
    <2>1. s.held = (IF Up(cn) = {} THEN 0 ELSE 1) + Cardinality(Open(s)) + 0 + (late + 1)
      BY <1>1, <1>8, <1>11
    <2>2. HandlesInv(s, cn, dw, late + 1)
      BY <1>4, <1>6, <1>8, <1>9, <1>10, <2>1 DEF HandlesInv
    <2> QED BY <1>1, <1>13, <1>14, <1>15, <2>2 DEF StoreOK
  <1> QED BY <1>16, <1>17, <1>18 DEF dw, left, CloseLeaves

-----------------------------------------------------------------------------
(* Renaming and removing *)

\* What a copy of the part file over the destination leaves: the store as it was,
\* the copy in place, or a writer more that failed.
LEMMA CopyIs ==
    ASSUME NEW s \in Store, NEW r \in Copy(s, Part, Dest)
    PROVE  \/ r.store = s /\ ~r.ok
           \/ /\ CanWrite(s, Dest) /\ r.store \in Store /\ r.ok
              /\ r.store.up = s.up /\ r.store.reading = s.reading /\ r.store.held = s.held
              /\ r.store.failed = s.failed /\ r.store.closed[Dest] = s.closed[Part]
              /\ r.store.writing[Dest].is = "NONE"
              /\ \A k \in Names : k /= Dest =>
                     r.store.closed[k] = s.closed[k] /\ r.store.writing[k] = s.writing[k]
           \/ /\ CanWrite(s, Dest) /\ r.store \in Store /\ ~r.ok
              /\ r.store.up = s.up /\ r.store.reading = s.reading /\ r.store.held = s.held
              /\ r.store.closed = s.closed /\ r.store.writing[Dest].is = "OPEN"
              /\ r.store.writing[Dest].got.version = s.closed[Part].version
              /\ \A k \in Names : k /= Dest => r.store.writing[k] = s.writing[k]
              /\ r.store.failed \in {s.failed, s.failed \cup {[name |-> Dest, remove |-> s.closed[Dest] = Absent]}}
  <1> DEFINE whole_u == Opened(s, Dest, s.closed[Part])
             short == [s.closed[Part] EXCEPT !.whole = FALSE]
             short_u == Opened(s, Dest, short)
             gone == s.closed[Dest] = Absent
  <1>1. \/ r = Result(s, FALSE)
        \/ CanWrite(s, Dest) /\ r = Result(Committed(whole_u, Dest), TRUE)
        \/ CanWrite(s, Dest) /\ r = Result(Failed(short_u, Dest, gone), FALSE)
    BY DEF Copy
  <1>2. Dest \in Names /\ Part \in Names
    BY NamesIs
  <1>3. s.closed[Part] \in Content /\ short \in Content /\ short.version = s.closed[Part].version
    <2>1. s.closed[Part] \in Content
      BY <1>2, StoreFields
    <2>2. \A x \in Content : LET y == [x EXCEPT !.whole = FALSE] IN y \in Content /\ y.version = x.version
      BY DEF Content
    <2> QED BY <2>1, <2>2
  <1>4. /\ whole_u \in Store
        /\ whole_u.up = s.up /\ whole_u.closed = s.closed /\ whole_u.reading = s.reading
        /\ whole_u.held = s.held /\ whole_u.failed = s.failed
        /\ whole_u.writing[Dest].got = s.closed[Part]
        /\ \A k \in Names : k /= Dest => whole_u.writing[k] = s.writing[k]
    BY <1>2, <1>3, OpenedIs
  <1> HIDE DEF short
  <1>5. /\ short_u \in Store
        /\ short_u.up = s.up /\ short_u.closed = s.closed /\ short_u.reading = s.reading
        /\ short_u.held = s.held /\ short_u.failed = s.failed
        /\ short_u.writing[Dest].is = "OPEN" /\ short_u.writing[Dest].got = short
        /\ \A k \in Names : k /= Dest => short_u.writing[k] = s.writing[k]
    BY <1>2, <1>3, OpenedIs
  <1> HIDE DEF whole_u, short_u
  <1>6. CASE r = Result(s, FALSE)
    BY <1>6 DEF Result
  <1>7. CASE CanWrite(s, Dest) /\ r = Result(Committed(whole_u, Dest), TRUE)
    <2> DEFINE t == Committed(whole_u, Dest)
    <2>1. /\ t \in Store
          /\ t.up = whole_u.up /\ t.reading = whole_u.reading
          /\ t.held = whole_u.held /\ t.failed = whole_u.failed
          /\ t.closed[Dest] = whole_u.writing[Dest].got /\ t.writing[Dest].is = "NONE"
          /\ \A k \in Names : k /= Dest => t.closed[k] = whole_u.closed[k] /\ t.writing[k] = whole_u.writing[k]
      BY <1>2, <1>4, CommittedIs
    <2>2. r.store = t /\ r.ok
      BY <1>7 DEF Result
    <2> HIDE DEF t
    <2> QED BY <1>4, <1>7, <2>1, <2>2
  <1>8. CASE CanWrite(s, Dest) /\ r = Result(Failed(short_u, Dest, gone), FALSE)
    <2> DEFINE t == Failed(short_u, Dest, gone)
    <2>1. /\ t \in Store
          /\ t.up = short_u.up /\ t.closed = short_u.closed /\ t.writing = short_u.writing
          /\ t.reading = short_u.reading /\ t.held = short_u.held
          /\ t.failed \in {short_u.failed, short_u.failed \cup {[name |-> Dest, remove |-> gone]}}
      BY <1>2, <1>5, FailedIs
    <2>2. r.store = t /\ ~r.ok
      BY <1>8 DEF Result
    <2> HIDE DEF t
    <2> QED BY <1>3, <1>5, <1>8, <2>1, <2>2
  <1> QED BY <1>1, <1>6, <1>7, <1>8

\* What the destination may hold once the rename of version v was tried.
Admits(m, m2, v, ok) == m2 \in MayType /\ m2[Pad] = m[Pad] /\ v \in m2[Dest] /\ (ok \/ m[Dest] \subseteq m2[Dest])

\* The upload's file in the destination's place, or the destination as it was.
CopyLeaves(r, s, cn, w, v, m2, sp, late, c, a) ==
    /\ r.ok => /\ StoreOK(r.store, Moved(cn, c, a), w, v, m2, sp \ {Dest}, late)
               /\ r.store.closed[Dest].version = cn[c].version
               /\ \A f \in r.store.failed : f.name /= Dest
    /\ ~r.ok => /\ StoreOK(r.store, Moved(cn, c, a), w, v, m2, sp, late)
                /\ r.store.closed[Dest] = s.closed[Dest]
    /\ r.store.closed[Pad] = s.closed[Pad]

LEMMA CopyKeeps ==
    ASSUME NEW s, NEW cn, NEW w, NEW v, NEW m, NEW sp, NEW late, NEW c, NEW a, NEW r, NEW m2,
           StoreOK(s, cn, w, v, m, sp, late),
           c \in Conns, cn[c].at = "RENAME", a \in {"IDLE", "REMOVE"}, r \in Copy(s, Part, Dest),
           Admits(m, m2, cn[c].version, r.ok)
    PROVE  CopyLeaves(r, s, cn, w, v, m2, sp, late, c, a)
  <1>0. /\ m2 \in MayType /\ m2[Pad] = m[Pad] /\ cn[c].version \in m2[Dest]
        /\ r.ok \/ m[Dest] \subseteq m2[Dest]
    BY DEF Admits
  <1> DEFINE t == r.store
             dn == Moved(cn, c, a)
  <1>1. s \in Store /\ Typed(cn, w, v, m, sp, late) /\ late \in Nat /\ cn \in ConnType /\ w \in WholeType
    BY DEF StoreOK, Typed
  <1>2. dn \in ConnType /\ dn[c].at = a /\ \A d \in Conns : d /= c => dn[d] = cn[d]
    BY <1>1 DEF ConnType, Moved
  <1> HIDE DEF dn
  <1>3. \A d \in Conns : d /= c => cn[d].at = "IDLE" /\ dn[d].at = "IDLE"
    BY <1>2 DEF StoreOK, HandlesInv
  <1>4. Up(cn) = {} /\ Up(dn) = {} /\ \A d \in Conns : dn[d].at \in {"IDLE", "REMOVE"}
    BY <1>2, <1>3 DEF Up
  <1>5. \A d, e \in Conns : dn[d].at /= "IDLE" /\ dn[e].at /= "IDLE" => d = e
    BY <1>3
  <1>6. /\ s.closed[Part] = Bytes(cn[c].version, TRUE)
        /\ cn[c].version \in 1 .. v /\ s.closed[Dest].version /= cn[c].version
    BY KeptIs DEF StoreOK, RenameInv, VersionsInv
  <1>7. /\ IsFiniteSet(Open(s))
        /\ s.held = 0 + Cardinality(Open(s)) + (IF w.at = "IDLE" THEN 0 ELSE 1) + late
    BY <1>4 DEF StoreOK, HandlesInv
  <1>8. /\ w.at /= "IDLE" => /\ s.writing[w.name].is = "OPEN" /\ s.writing[w.name].got.version = w.version
                             /\ w.at = "WROTE" => s.writing[w.name].got.whole
        /\ \A f \in s.failed : /\ s.up => s.writing[f.name].is = "OPEN"
                               /\ f.name = w.name => w.at = "IDLE"
    BY DEF StoreOK, HandlesInv
  <1>9. Typed(dn, w, v, m2, sp, late) /\ Typed(dn, w, v, m2, sp \ {Dest}, late)
    BY <1>0, <1>1, <1>2 DEF Typed
  <1>10. w.name \in Names /\ Dest \in Names /\ Pad \in Names /\ Part \in Names
    BY <1>1, NamesIs, KeptIs DEF WholeType
  <1>11. /\ \A k \in Names : s.closed[k].version <= v
         /\ w.at /= "IDLE" => w.version \in 1 .. v
    BY DEF StoreOK, VersionsInv
  <1>12. /\ \A n \in Kept : n \in sp \/ GoodIn(s, m, n)
         /\ \A f \in s.failed : f.remove => f.name /= Pad /\ (f.name = Dest => Dest \in sp \/ 0 \in m[Dest])
    BY DEF StoreOK, ContentInv
  <1>13. ASSUME NEW u, \A k \in Names : u.closed[k].version <= v
         PROVE  VersionsInv(u, dn, w, v) /\ RenameInv(u, dn)
    <2>1. \A d \in Conns : dn[d].at \notin {"BODY", "WHOLE", "SHORT", "RENAME"}
      BY <1>4
    <2> QED BY <1>11, <1>13, <2>1 DEF VersionsInv, RenameInv
  <1>14. CASE t = s /\ ~r.ok
    <2>1. HandlesInv(s, dn, w, late)
      BY <1>4, <1>5, <1>7, <1>8 DEF HandlesInv
    <2>2. ContentInv(s, m2, sp)
      BY <1>0, <1>12, <1>14, KeptIs DEF ContentInv, GoodIn
    <2> QED BY <1>1, <1>9, <1>11, <1>13, <1>14, <2>1, <2>2 DEF StoreOK, dn, CopyLeaves
  <1>15. CASE /\ CanWrite(s, Dest) /\ t \in Store /\ r.ok
              /\ t.up = s.up /\ t.reading = s.reading /\ t.held = s.held
              /\ t.failed = s.failed /\ t.closed[Dest] = s.closed[Part]
              /\ \A k \in Names : k /= Dest => t.closed[k] = s.closed[k] /\ t.writing[k] = s.writing[k]
    <2> HIDE DEF t
    <2>1. s.up /\ s.writing[Dest].is /= "OPEN" /\ \A f \in s.failed : f.name /= Dest
      BY <1>8, <1>15 DEF CanWrite
    <2>2. w.at /= "IDLE" => w.name /= Dest
      BY <1>8, <2>1
    <2>3. Open(t) = Open(s)
      BY <1>15, OpenSame
    <2>4. HandlesInv(t, dn, w, late)
      <3>1. w.at /= "IDLE" => /\ t.writing[w.name].is = "OPEN" /\ t.writing[w.name].got.version = w.version
                              /\ w.at = "WROTE" => t.writing[w.name].got.whole
        BY <1>8, <1>10, <1>15, <2>2
      <3>2. \A f \in t.failed : /\ t.up => t.writing[f.name].is = "OPEN"
                                /\ f.name = w.name => w.at = "IDLE"
        BY <1>1, <1>8, <1>15, <2>1, StoreFields
      <3>3. IsFiniteSet(Open(t)) /\ t.held = 0 + Cardinality(Open(t)) + (IF w.at = "IDLE" THEN 0 ELSE 1) + late
        BY <1>7, <1>15, <2>3
      <3> QED BY <1>4, <1>5, <3>1, <3>2, <3>3 DEF HandlesInv
    <2>5. VersionsInv(t, dn, w, v) /\ RenameInv(t, dn)
      <3>1. \A k \in Names : t.closed[k].version <= v
        BY <1>10, <1>11, <1>15
      <3> QED BY <1>13, <3>1
    <2>6. t.closed[Dest].whole /\ t.closed[Dest].version = cn[c].version /\ t.closed[Dest] /= Absent
      BY <1>6, <1>15 DEF Bytes, Absent
    <2>7. t.closed[Pad] = s.closed[Pad]
      BY <1>10, <1>15, NamesIs
    <2>8. ContentInv(t, m2, sp \ {Dest})
      <3>1. GoodIn(t, m2, Dest)
        BY <1>0, <2>6 DEF GoodIn
      <3>2. Pad \in sp \ {Dest} \/ GoodIn(t, m2, Pad)
        BY <1>0, <1>12, <2>7, NamesIs, KeptIs DEF GoodIn
      <3>3. \A f \in t.failed : f.remove => f.name /= Pad /\ f.name /= Dest
        BY <1>12, <1>15, <2>1
      <3> QED BY <3>1, <3>2, <3>3, KeptIs DEF ContentInv
    <2>9. StoreOK(t, dn, w, v, m2, sp \ {Dest}, late)
      BY <1>9, <1>15, <2>4, <2>5, <2>8 DEF StoreOK
    <2> QED BY <1>15, <2>1, <2>6, <2>7, <2>9 DEF t, dn, CopyLeaves
  <1>16. CASE /\ CanWrite(s, Dest) /\ t \in Store /\ ~r.ok
              /\ t.up = s.up /\ t.reading = s.reading /\ t.held = s.held
              /\ t.closed = s.closed /\ t.writing[Dest].is = "OPEN"
              /\ \A k \in Names : k /= Dest => t.writing[k] = s.writing[k]
              /\ t.failed \in {s.failed, s.failed \cup {[name |-> Dest, remove |-> s.closed[Dest] = Absent]}}
    <2> HIDE DEF t
    <2>1. s.up /\ s.writing[Dest].is /= "OPEN"
      BY <1>16 DEF CanWrite
    <2>2. w.at /= "IDLE" => w.name /= Dest
      BY <1>8, <2>1
    <2>3. Open(t) = Open(s)
      BY <1>16, OpenSame
    <2>4. \A f \in t.failed : f \in s.failed \/ f = [name |-> Dest, remove |-> s.closed[Dest] = Absent]
      BY <1>16
    <2>5. HandlesInv(t, dn, w, late)
      <3>1. w.at /= "IDLE" => /\ t.writing[w.name].is = "OPEN" /\ t.writing[w.name].got.version = w.version
                              /\ w.at = "WROTE" => t.writing[w.name].got.whole
        BY <1>8, <1>10, <1>16, <2>2
      <3>2. \A f \in t.failed : /\ t.up => t.writing[f.name].is = "OPEN"
                                /\ f.name = w.name => w.at = "IDLE"
        <4>1. \A f \in s.failed : f.name \in Names
          BY <1>1, StoreFields
        <4>2. \A f \in s.failed : /\ t.up => t.writing[f.name].is = "OPEN"
                                  /\ f.name = w.name => w.at = "IDLE"
          BY <1>8, <1>16, <4>1
        <4>3. \A f : f = [name |-> Dest, remove |-> s.closed[Dest] = Absent] => f.name = Dest
          OBVIOUS
        <4> QED BY <1>16, <2>2, <2>4, <4>2, <4>3
      <3>3. IsFiniteSet(Open(t)) /\ t.held = 0 + Cardinality(Open(t)) + (IF w.at = "IDLE" THEN 0 ELSE 1) + late
        BY <1>7, <1>16, <2>3
      <3> QED BY <1>4, <1>5, <3>1, <3>2, <3>3 DEF HandlesInv
    <2>6. VersionsInv(t, dn, w, v) /\ RenameInv(t, dn)
      BY <1>11, <1>13, <1>16
    <2>7. ContentInv(t, m2, sp)
      <3>1. \A n \in Kept : n \in sp \/ GoodIn(t, m2, n)
        BY <1>0, <1>12, <1>16, KeptIs DEF GoodIn
      <3>2. s.closed[Dest] = Absent => Dest \in sp \/ 0 \in m2[Dest]
        BY <1>0, <1>12, <1>16, KeptIs DEF GoodIn
      <3>3. ASSUME NEW f \in t.failed, f.remove
            PROVE  f.name /= Pad /\ (f.name = Dest => Dest \in sp \/ 0 \in m2[Dest])
        <4>1. CASE f \in s.failed
          BY <1>0, <1>12, <1>16, <3>3, <4>1
        <4>2. CASE f = [name |-> Dest, remove |-> s.closed[Dest] = Absent]
          BY <3>2, <3>3, <4>2, NamesIs
        <4> QED BY <2>4, <4>1, <4>2
      <3> QED BY <3>1, <3>3 DEF ContentInv
    <2>8. StoreOK(t, dn, w, v, m2, sp, late)
      BY <1>9, <1>16, <2>5, <2>6, <2>7 DEF StoreOK
    <2> QED BY <1>16, <2>8 DEF t, dn, CopyLeaves
  <1> QED BY <1>1, <1>14, <1>15, <1>16, CopyIs DEF dn

\* The part file goes once no upload wants it.
LEMMA DropPart ==
    ASSUME NEW s, NEW cn, NEW w, NEW v, NEW m, NEW sp, NEW late,
           StoreOK(s, cn, w, v, m, sp, late), CanDelete(s, Part),
           \A c \in Conns : cn[c].at /= "RENAME", NEW t, t = Without(s, {Part})
    PROVE  /\ StoreOK(t, cn, w, v, m, sp, late)
           /\ t.closed[Pad] = s.closed[Pad] /\ t.closed[Dest] = s.closed[Dest]
           /\ t.failed = s.failed
  <1>1. s \in Store /\ Typed(cn, w, v, m, sp, late) /\ w \in WholeType /\ v \in Nat
    BY DEF StoreOK, Typed
  <1>2. /\ t \in Store
        /\ t.up = s.up /\ t.reading = s.reading /\ t.held = s.held /\ t.failed = s.failed
        /\ t.closed[Part] = Absent
        /\ \A k \in Names : k /= Part => t.closed[k] = s.closed[k] /\ t.writing[k] = s.writing[k]
    BY <1>1, WithoutIs, NamesIs
  <1>3. s.up /\ s.writing[Part].is /= "OPEN" /\ (\A f \in s.failed : f.name /= Part) /\ Up(cn) = {}
    BY DEF CanDelete, StoreOK, HandlesInv
  <1>4. w.name \in Names /\ w.name /= Part
    BY <1>1, NamesIs, KeptIs DEF WholeType
  <1>5. Open(t) = Open(s)
    BY <1>2, OpenSame
  <1>6. HandlesInv(t, cn, w, late)
    <2>1. w.at /= "IDLE" => /\ t.writing[w.name].is = "OPEN" /\ t.writing[w.name].got.version = w.version
                            /\ w.at = "WROTE" => t.writing[w.name].got.whole
      BY <1>2, <1>4 DEF StoreOK, HandlesInv
    <2>2. \A f \in t.failed : /\ t.up => t.writing[f.name].is = "OPEN"
                              /\ f.name = w.name => w.at = "IDLE"
      <3>1. \A f \in s.failed : /\ s.up => s.writing[f.name].is = "OPEN"
                                /\ f.name = w.name => w.at = "IDLE"
        BY DEF StoreOK, HandlesInv
      <3>2. \A f \in s.failed : f.name \in Names /\ f.name /= Part
        BY <1>1, <1>3, StoreFields
      <3> QED BY <1>2, <3>1, <3>2
    <2>3. /\ IsFiniteSet(Open(t))
          /\ t.held = (IF Up(cn) = {} THEN 0 ELSE 1) + Cardinality(Open(t))
                       + (IF w.at = "IDLE" THEN 0 ELSE 1) + late
          /\ \A c, d \in Conns : cn[c].at /= "IDLE" /\ cn[d].at /= "IDLE" => c = d
      BY <1>2, <1>5 DEF StoreOK, HandlesInv
    <2> QED BY <1>3, <2>1, <2>2, <2>3 DEF HandlesInv
  <1>7. \A n \in Kept : t.closed[n] = s.closed[n]
    BY <1>2, NamesIs, KeptIs
  <1>8. VersionsInv(t, cn, w, v)
    <2>1. \A n \in Names : t.closed[n].version <= v
      BY <1>1, <1>2 DEF StoreOK, VersionsInv, Absent
    <2> QED BY <1>7, <2>1 DEF StoreOK, VersionsInv
  <1>9. RenameInv(t, cn)
    BY DEF RenameInv
  <1>10. ContentInv(t, m, sp)
    BY <1>2, <1>7 DEF StoreOK, ContentInv, GoodIn
  <1>11. StoreOK(t, cn, w, v, m, sp, late)
    BY <1>1, <1>2, <1>6, <1>8, <1>9, <1>10 DEF StoreOK
  <1> QED BY <1>2, <1>7, <1>11, KeptIs

\* A reset forgets every handle and every writer that failed.
LEMMA ResetKeeps ==
    ASSUME NEW s, NEW cn, NEW w, NEW v, NEW m, NEW sp, NEW late,
           StoreOK(s, cn, w, v, m, sp, late),
           NEW dn \in ConnType, \A c \in Conns : dn[c].at = "IDLE",
           NEW dw \in WholeType, dw.at = "IDLE"
    PROVE  StoreOK(Reset(s), dn, dw, v, m, sp, 0) /\ Reset(s).closed = s.closed
  <1> DEFINE u == Mounted(s)
             t == Reset(s)
  <1>1. s \in Store /\ Typed(cn, w, v, m, sp, late)
    BY DEF StoreOK
  <1>2. /\ u \in Store /\ u.up /\ u.closed = s.closed
        /\ \A r \in Readers : u.reading[r] = NoName
    BY <1>1, MountedIs
  <1>3. t = [u EXCEPT !.held = 0, !.failed = {}, !.nfailed = 0]
    BY DEF Reset
  <1> HIDE DEF u, t
  <1>4. /\ t \in Store /\ t.closed = s.closed /\ t.held = 0 /\ t.failed = {}
        /\ \A r \in Readers : t.reading[r] = NoName
    BY <1>2, <1>3 DEF Store
  <1>5. Open(t) = {} /\ IsFiniteSet(Open(t)) /\ Cardinality(Open(t)) = 0
    BY <1>4, OpenNone
  <1>6. Up(dn) = {}
    BY DEF Up
  <1>7. HandlesInv(t, dn, dw, 0)
    BY <1>4, <1>5, <1>6 DEF HandlesInv
  <1>8. VersionsInv(t, dn, dw, v)
    <2>1. \A n \in Names : t.closed[n].version <= v
      BY <1>4 DEF StoreOK, VersionsInv
    <2> QED BY <2>1 DEF VersionsInv
  <1>9. RenameInv(t, dn)
    BY DEF RenameInv
  <1>10. ContentInv(t, m, sp)
    BY <1>4 DEF StoreOK, ContentInv, GoodIn
  <1>11. Typed(dn, dw, v, m, sp, 0)
    BY <1>1 DEF Typed
  <1>12. StoreOK(t, dn, dw, v, m, sp, 0)
    BY <1>4, <1>7, <1>8, <1>9, <1>10, <1>11 DEF StoreOK
  <1> QED BY <1>4, <1>12 DEF t

\* A rename leaves, before the failed writers are let go, what the copy left, or
\* that without the part file.
LEMMA RenameIs ==
    ASSUME NEW s, NEW r \in Rename(s, Part, Dest) \cup {Result(s, FALSE)}
    PROVE  \E q \in Copy(s, Part, Dest) :
               \/ q.ok /\ CanDelete(q.store, Part) /\ r.ok /\ r.store \in LetGo(Without(q.store, {Part}))
               \/ ~r.ok /\ (r.store = q.store \/ r.store \in LetGo(q.store))
  <1>1. CASE r = Result(s, FALSE)
    <2>1. r \in Copy(s, Part, Dest) /\ ~r.ok
      BY <1>1 DEF Copy, Result
    <2> QED BY <2>1
  <1>2. CASE r \in Rename(s, Part, Dest)
    <2> DEFINE step(q) == IF q.ok /\ CanDelete(q.store, Part)
                          THEN Result(Without(q.store, {Part}), TRUE) ELSE Result(q.store, FALSE)
    <2>1. PICK q \in Copy(s, Part, Dest) : r \in {Result(t, step(q).ok) : t \in LetGo(step(q).store)}
      BY <1>2 DEF Rename
    <2>2. PICK t \in LetGo(step(q).store) : r = Result(t, step(q).ok)
      BY <2>1
    <2>3. r.store = t /\ r.ok = step(q).ok
      BY <2>2 DEF Result
    <2>4. CASE q.ok /\ CanDelete(q.store, Part)
      <3>1. step(q).store = Without(q.store, {Part}) /\ step(q).ok
        BY <2>4 DEF Result
      <3> HIDE DEF step
      <3> QED BY <2>2, <2>3, <2>4, <3>1
    <2>5. CASE ~(q.ok /\ CanDelete(q.store, Part))
      <3>1. step(q).store = q.store /\ ~step(q).ok
        BY <2>5 DEF Result
      <3> HIDE DEF step
      <3> QED BY <2>2, <2>3, <3>1
    <2> QED BY <2>4, <2>5
  <1> QED BY <1>1, <1>2

\* What a reset may come upon inside a rename.
LEMMA RenameReachesIs ==
    ASSUME NEW s, NEW r \in RenameReaches(s, Part, Dest)
    PROVE  \E q \in Copy(s, Part, Dest) :
               \/ r.store = q.store
               \/ q.ok /\ CanDelete(q.store, Part) /\ r.store = Without(q.store, {Part})
  <1>1. PICK q \in Copy(s, Part, Dest) :
            r \in IF q.ok /\ CanDelete(q.store, Part)
                  THEN {Result(q.store, FALSE), Result(Without(q.store, {Part}), TRUE)}
                  ELSE {Result(q.store, FALSE)}
    BY DEF RenameReaches
  <1>2. \/ r = Result(q.store, FALSE)
        \/ q.ok /\ CanDelete(q.store, Part) /\ r = Result(Without(q.store, {Part}), TRUE)
    BY <1>1
  <1>3. /\ Result(q.store, FALSE).store = q.store
        /\ Result(Without(q.store, {Part}), TRUE).store = Without(q.store, {Part})
    BY DEF Result
  <1> QED BY <1>2, <1>3

-----------------------------------------------------------------------------
(* The store, action by action *)

StoreNow == StoreOK(fs, conn, whole, version, may, spoilt, timeouts)

\* The pad marker's file is neither written nor spoilt.
PadKept == fs'.closed[Pad] = fs.closed[Pad] /\ (Pad \in spoilt' <=> Pad \in spoilt)

LEMMA OpenWriteIs ==
    ASSUME NEW s \in Store, NEW n \in Names, NEW got \in Content, NEW t, t = OpenWrite(s, n, got)
    PROVE  /\ t \in Store
           /\ t.up = s.up /\ t.closed = s.closed /\ t.reading = s.reading
           /\ t.held = s.held + 1 /\ t.failed = s.failed
           /\ t.writing[n].is = "OPEN" /\ t.writing[n].got = got
           /\ \A k \in Names : k /= n => t.writing[k] = s.writing[k]
  <1> DEFINE u == Opened(s, n, got)
  <1>1. /\ u \in Store
        /\ u.up = s.up /\ u.closed = s.closed /\ u.reading = s.reading
        /\ u.held = s.held /\ u.failed = s.failed
        /\ u.writing[n].is = "OPEN" /\ u.writing[n].got = got
        /\ \A k \in Names : k /= n => u.writing[k] = s.writing[k]
    BY OpenedIs
  <1>2. t = [u EXCEPT !.held = u.held + 1]
    BY DEF OpenWrite
  <1>3. u.held + 1 \in Nat
    BY <1>1, StoreFields
  <1> HIDE DEF u
  <1>4. /\ t \in Store
        /\ t.up = u.up /\ t.closed = u.closed /\ t.writing = u.writing /\ t.reading = u.reading
        /\ t.held = u.held + 1 /\ t.failed = u.failed
    BY <1>1, <1>2, <1>3, LeftIs
  <1> QED BY <1>1, <1>4

LEMMA WrittenIs ==
    ASSUME NEW s \in Store, NEW n \in Names, NEW t, t = [s EXCEPT !.writing[n].got.whole = TRUE]
    PROVE  /\ t \in Store
           /\ t.up = s.up /\ t.closed = s.closed /\ t.reading = s.reading
           /\ t.held = s.held /\ t.failed = s.failed
           /\ t.writing[n].is = s.writing[n].is /\ t.writing[n].got.whole
           /\ t.writing[n].got.version = s.writing[n].got.version
           /\ \A k \in Names : k /= n => t.writing[k] = s.writing[k]
  <1> DEFINE Copies == [is: {"NONE", "OPEN", "LEFT"}, got: Content]
             copy == [s.writing[n] EXCEPT !.got.whole = TRUE]
             writing == [s.writing EXCEPT ![n] = copy]
  <1>1. s.writing \in [Names -> Copies]
    BY StoreFields
  <1>2. \A x \in Copies : LET y == [x EXCEPT !.got.whole = TRUE]
                          IN  y \in Copies /\ y.is = x.is /\ y.got.whole /\ y.got.version = x.got.version
    BY DEF Content
  <1>3. /\ copy \in Copies /\ copy.is = s.writing[n].is /\ copy.got.whole
        /\ copy.got.version = s.writing[n].got.version
    BY <1>1, <1>2
  <1>4. t = [s EXCEPT !.writing = writing]
    BY DEF Store
  <1> HIDE DEF copy
  <1>5. /\ writing \in [Names -> Copies] /\ writing[n] = copy
        /\ \A k \in Names : k /= n => writing[k] = s.writing[k]
    BY <1>1, <1>3
  <1> HIDE DEF writing
  <1>6. /\ t \in Store /\ t.writing = writing
        /\ t.up = s.up /\ t.closed = s.closed /\ t.reading = s.reading
        /\ t.held = s.held /\ t.failed = s.failed
    BY <1>4, <1>5 DEF Store
  <1> QED BY <1>3, <1>5, <1>6

\* What StoreNow says, part by part.
LEMMA Now ==
    ASSUME StoreNow
    PROVE  /\ fs \in Store /\ conn \in ConnType /\ whole \in WholeType /\ version \in 0 .. MaxVersion
           /\ may \in MayType /\ spoilt \subseteq Kept /\ timeouts \in Nat
           /\ HandlesInv(fs, conn, whole, timeouts) /\ VersionsInv(fs, conn, whole, version)
           /\ RenameInv(fs, conn) /\ ContentInv(fs, may, spoilt)
           /\ whole.name \in Names /\ whole.name \in Kept /\ whole.name /= Part
  BY NamesIs, KeptIs DEF StoreNow, StoreOK, Typed, WholeType

LEMMA UploadOpenStep ==
    ASSUME StoreNow, NEW c \in Conns, UploadOpen(c)
    PROVE  StoreNow' /\ PadKept
  <1>0. /\ fs \in Store /\ conn \in ConnType /\ whole \in WholeType /\ version \in 0 .. MaxVersion
        /\ may \in MayType /\ spoilt \subseteq Kept /\ timeouts \in Nat
        /\ whole.name \in Names /\ whole.name /= Part
    BY Now
  <1>1. /\ NetFree /\ conn[c].at = "IDLE" /\ CanWrite(fs, Part)
        /\ version < MaxVersion /\ version' = version + 1
        /\ fs' = OpenWrite(fs, Part, Bytes(version', FALSE))
        /\ conn' = [conn EXCEPT ![c] = [at |-> "BODY", version |-> version']]
    BY DEF UploadOpen, NextVersion
  <1>2. UNCHANGED <<whole, may, spoilt, timeouts>>
    BY DEF UploadOpen, history, bounds
  <1>3. version' \in 0 .. MaxVersion /\ version' \in 1 .. version' /\ version' > version
    BY <1>0, <1>1, StoreConstants
  <1>4. Bytes(version', FALSE) \in Content /\ Bytes(version', FALSE).version = version'
    BY <1>3 DEF Bytes, Content
  <1>5. /\ fs' \in Store
        /\ fs'.up = fs.up /\ fs'.closed = fs.closed /\ fs'.reading = fs.reading
        /\ fs'.held = fs.held + 1 /\ fs'.failed = fs.failed
        /\ fs'.writing[Part].is = "OPEN" /\ fs'.writing[Part].got.version = version'
        /\ \A k \in Names : k /= Part => fs'.writing[k] = fs.writing[k]
    <2> DEFINE got == Bytes(version', FALSE)
    <2>1. got \in Content /\ got.version = version' /\ fs' = OpenWrite(fs, Part, got) /\ Part \in Names
      BY <1>1, <1>4, NamesIs
    <2> HIDE DEF got
    <2> QED BY <1>0, <2>1, OpenWriteIs
  <1>6. /\ conn' \in ConnType /\ conn'[c].at = "BODY" /\ conn'[c].version = version'
        /\ \A d \in Conns : d /= c => conn'[d] = conn[d]
    BY <1>0, <1>1, <1>3 DEF ConnType
  <1>7. fs.up /\ fs.writing[Part].is /= "OPEN"
    BY <1>1 DEF CanWrite
  <1>8. \A d \in Conns : conn[d].at = "IDLE"
    <2> TAKE d \in Conns
    <2>1. d \notin Up(conn)
      BY <1>7, Now DEF HandlesInv
    <2>2. conn[d].at \notin {"RENAME", "REMOVE"}
      BY <1>1 DEF NetFree
    <2> QED BY <1>0, <2>1, <2>2 DEF Up, ConnType
  <1>9. \A d \in Conns : d /= c => conn'[d].at = "IDLE"
    BY <1>6, <1>8
  <1>10. Up(conn) = {} /\ Up(conn') = {c}
    BY <1>6, <1>8, <1>9 DEF Up
  <1>11. Open(fs') = Open(fs)
    BY <1>5, OpenSame
  <1>12. HandlesInv(fs', conn', whole', timeouts')
    <2>1. /\ IsFiniteSet(Open(fs'))
          /\ fs'.held = 1 + Cardinality(Open(fs')) + (IF whole.at = "IDLE" THEN 0 ELSE 1) + timeouts
      <3>1. /\ IsFiniteSet(Open(fs))
            /\ fs.held = 0 + Cardinality(Open(fs)) + (IF whole.at = "IDLE" THEN 0 ELSE 1) + timeouts
        BY <1>10, Now DEF HandlesInv
      <3>2. Cardinality(Open(fs)) \in Nat /\ (IF whole.at = "IDLE" THEN 0 ELSE 1) \in Nat
        BY <3>1, FS_CardinalityType
      <3> QED BY <1>0, <1>5, <1>11, <3>1, <3>2
    <2>2. whole.at /= "IDLE" =>
              /\ fs'.writing[whole.name].is = "OPEN" /\ fs'.writing[whole.name].got.version = whole.version
              /\ whole.at = "WROTE" => fs'.writing[whole.name].got.whole
      BY <1>0, <1>5, Now DEF HandlesInv
    <2>3. \A f \in fs.failed : /\ fs.up => fs.writing[f.name].is = "OPEN"
                               /\ f.name = whole.name => whole.at = "IDLE"
      BY Now DEF HandlesInv
    <2>4. \A f \in fs.failed : f.name \in Names /\ f.name /= Part
      BY <1>0, <1>7, <2>3, StoreFields
    <2>5. \A f \in fs'.failed : /\ fs'.up => fs'.writing[f.name].is = "OPEN"
                                /\ f.name /= Part
                                /\ f.name = whole.name => whole.at = "IDLE"
      BY <1>5, <2>3, <2>4
    <2> QED BY <1>2, <1>5, <1>6, <1>9, <1>10, <2>1, <2>2, <2>5 DEF HandlesInv
  <1>13. VersionsInv(fs', conn', whole', version')
    <2>1. /\ \A n \in Names : fs.closed[n].version \in 0 .. MaxVersion /\ fs.closed[n].version <= version
          /\ whole.at /= "IDLE" => whole.version \in 1 .. version
      BY <1>0, Now, StoreFields DEF VersionsInv, Content
    <2>2. \A n \in Names : fs'.closed[n].version <= version' /\ fs'.closed[n].version /= version'
      BY <1>0, <1>3, <1>5, <2>1
    <2>3. whole.at /= "IDLE" => whole.version \in 1 .. version' /\ whole.version /= version'
      BY <1>0, <1>3, <2>1
    <2> QED BY <1>2, <1>3, <1>6, <1>9, <2>2, <2>3, NamesIs, KeptIs DEF VersionsInv
  <1>14. RenameInv(fs', conn')
    BY <1>6, <1>9 DEF RenameInv
  <1>15. ContentInv(fs', may', spoilt')
    BY <1>2, <1>5, Now DEF ContentInv, GoodIn
  <1>16. Typed(conn', whole', version', may', spoilt', timeouts')
    BY <1>0, <1>2, <1>3, <1>6 DEF Typed
  <1>17. StoreNow'
    BY <1>5, <1>12, <1>13, <1>14, <1>15, <1>16 DEF StoreNow, StoreOK
  <1> QED BY <1>2, <1>5, <1>17 DEF PadKept

LEMMA UploadBodyStep ==
    ASSUME StoreNow, NEW c \in Conns, UploadBody(c)
    PROVE  StoreNow' /\ PadKept
  <1>0. /\ fs \in Store /\ conn \in ConnType /\ whole \in WholeType /\ version \in 0 .. MaxVersion
        /\ may \in MayType /\ spoilt \subseteq Kept /\ timeouts \in Nat
        /\ whole.name \in Names /\ whole.name /= Part /\ Part \in Names
    BY Now, NamesIs
  <1>1. conn[c].at = "BODY" /\ UNCHANGED <<whole, version, may, spoilt, timeouts>>
    BY DEF UploadBody, history, bounds
  <1>2. \/ conn' = [conn EXCEPT ![c].at = "WHOLE"] /\ fs' = [fs EXCEPT !.writing[Part].got.whole = TRUE]
        \/ conn' = [conn EXCEPT ![c].at = "SHORT"] /\ fs' = fs
    BY DEF UploadBody
  <1>3. /\ conn' \in ConnType /\ conn'[c].at \in {"WHOLE", "SHORT"} /\ conn'[c].version = conn[c].version
        /\ \A d \in Conns : d /= c => conn'[d] = conn[d]
    BY <1>0, <1>2 DEF ConnType
  <1>4. /\ fs' \in Store
        /\ fs'.up = fs.up /\ fs'.closed = fs.closed /\ fs'.reading = fs.reading
        /\ fs'.held = fs.held /\ fs'.failed = fs.failed
        /\ fs'.writing[Part].is = fs.writing[Part].is
        /\ fs'.writing[Part].got.version = fs.writing[Part].got.version
        /\ \A k \in Names : k /= Part => fs'.writing[k] = fs.writing[k]
    <2>1. CASE fs' = [fs EXCEPT !.writing[Part].got.whole = TRUE]
      BY <1>0, <2>1, WrittenIs
    <2>2. CASE fs' = fs
      BY <1>0, <2>2
    <2> QED BY <1>2, <2>1, <2>2
  <1>5. conn'[c].at = "WHOLE" => fs'.writing[Part].got.whole
    <2>1. conn'[c].at = "WHOLE" => fs' = [fs EXCEPT !.writing[Part].got.whole = TRUE]
      BY <1>0, <1>2 DEF ConnType
    <2> QED BY <1>0, <2>1, WrittenIs
  <1>6. \A d, e \in Conns : conn[d].at /= "IDLE" /\ conn[e].at /= "IDLE" => d = e
    BY Now DEF HandlesInv
  <1>7. \A d \in Conns : d /= c => conn'[d].at = "IDLE" /\ conn[d].at = "IDLE"
    BY <1>1, <1>3, <1>6
  <1>8. Up(conn) = {c} /\ Up(conn') = {c}
    BY <1>1, <1>3, <1>7 DEF Up
  <1>9. Open(fs') = Open(fs)
    BY <1>4, OpenSame
  <1>10. HandlesInv(fs', conn', whole', timeouts')
    <2>1. /\ IsFiniteSet(Open(fs'))
          /\ fs'.held = 1 + Cardinality(Open(fs')) + (IF whole.at = "IDLE" THEN 0 ELSE 1) + timeouts
      BY <1>4, <1>8, <1>9, Now DEF HandlesInv
    <2>2. whole.at /= "IDLE" =>
              /\ fs'.writing[whole.name].is = "OPEN" /\ fs'.writing[whole.name].got.version = whole.version
              /\ whole.at = "WROTE" => fs'.writing[whole.name].got.whole
      BY <1>0, <1>4, Now DEF HandlesInv
    <2>3. \A f \in fs.failed : /\ fs.up => fs.writing[f.name].is = "OPEN"
                               /\ f.name /= Part
                               /\ f.name = whole.name => whole.at = "IDLE"
      BY <1>8, Now DEF HandlesInv
    <2>4. \A f \in fs.failed : f.name \in Names
      BY <1>0, StoreFields
    <2>5. \A f \in fs'.failed : /\ fs'.up => fs'.writing[f.name].is = "OPEN"
                                /\ f.name /= Part
                                /\ f.name = whole.name => whole.at = "IDLE"
      BY <1>4, <2>3, <2>4
    <2>6. fs.writing[Part].is = "OPEN" /\ fs.writing[Part].got.version = conn[c].version
      BY <1>8, Now DEF HandlesInv
    <2>7. \A d \in Up(conn') :
              /\ fs'.writing[Part].is = "OPEN" /\ fs'.writing[Part].got.version = conn'[d].version
              /\ conn'[d].at = "WHOLE" => fs'.writing[Part].got.whole
      BY <1>3, <1>4, <1>5, <1>8, <2>6
    <2> QED BY <1>1, <1>7, <1>8, <2>1, <2>2, <2>5, <2>7 DEF HandlesInv
  <1>11. VersionsInv(fs', conn', whole', version')
    BY <1>1, <1>3, <1>4, <1>7, Now DEF VersionsInv
  <1>12. RenameInv(fs', conn')
    BY <1>3, <1>7 DEF RenameInv
  <1>13. ContentInv(fs', may', spoilt')
    BY <1>1, <1>4, Now DEF ContentInv, GoodIn
  <1>14. Typed(conn', whole', version', may', spoilt', timeouts')
    BY <1>0, <1>1, <1>3 DEF Typed
  <1>15. StoreNow'
    BY <1>4, <1>10, <1>11, <1>12, <1>13, <1>14 DEF StoreNow, StoreOK
  <1> QED BY <1>1, <1>4, <1>15 DEF PadKept

\* How a writer's close ends: done, failed, or too late to be made.
LEMMA ClosingsIs ==
    ASSUME fs \in Store, NEW n, NEW r \in Closings(n), NEW left, left = OneLess(fs)
    PROVE  \/ r.ok /\ r.late = 0 /\ r.store \in LetGo(Committed(left, n))
           \/ ~r.ok /\ r.late = 0 /\ r.store \in LetGo(Failed(left, n, FALSE))
           \/ ~r.ok /\ r.late = 1 /\ r.store = fs /\ timeouts \in 0 .. MaxTimeouts - 1
  <1>1. left = [fs EXCEPT !.held = @ - 1]
    BY DEF OneLess
  <1>2. CASE r \in {[store |-> q.store, ok |-> q.ok, late |-> 0] : q \in CloseWrite(fs, n)}
    <2>1. PICK q \in CloseWrite(fs, n) : r = [store |-> q.store, ok |-> q.ok, late |-> 0]
      BY <1>2
    <2>2. \/ \E t \in LetGo(Committed(left, n)) : q = Result(t, TRUE)
          \/ \E t \in LetGo(Failed(left, n, FALSE)) : q = Result(t, FALSE)
      BY <1>1, <2>1 DEF CloseWrite
    <2>3. \/ q.ok /\ q.store \in LetGo(Committed(left, n))
          \/ ~q.ok /\ q.store \in LetGo(Failed(left, n, FALSE))
      <3>1. ASSUME NEW t \in LetGo(Committed(left, n)), q = Result(t, TRUE)
            PROVE  q.ok /\ q.store \in LetGo(Committed(left, n))
        BY <3>1 DEF Result
      <3>2. ASSUME NEW t \in LetGo(Failed(left, n, FALSE)), q = Result(t, FALSE)
            PROVE  ~q.ok /\ q.store \in LetGo(Failed(left, n, FALSE))
        BY <3>2 DEF Result
      <3> QED BY <2>2, <3>1, <3>2
    <2> QED BY <2>1, <2>3
  <1>3. CASE r \in {[store |-> fs, ok |-> FALSE, late |-> 1] : i \in {timeouts} \cap 0 .. MaxTimeouts - 1}
    <2>1. PICK i \in {timeouts} \cap 0 .. MaxTimeouts - 1 : r = [store |-> fs, ok |-> FALSE, late |-> 1]
      BY <1>3
    <2>2. timeouts \in 0 .. MaxTimeouts - 1
      BY <2>1
    <2>3. r.store = fs /\ ~r.ok /\ r.late = 1
      BY <2>1
    <2> QED BY <2>2, <2>3
  <1> QED BY <1>2, <1>3 DEF Closings

LEMMA UploadCloses ==
    ASSUME StoreNow, NEW c \in Conns, conn[c].at \in {"BODY", "WHOLE", "SHORT"},
           NEW r \in Closings(Part), Closed(r), NEW a \in {"RENAME", "REMOVE"},
           conn' = [conn EXCEPT ![c].at = a], a = "RENAME" => r.ok /\ conn[c].at = "WHOLE",
           UNCHANGED <<whole, version, may, spoilt>>
    PROVE  StoreNow' /\ PadKept
  <1> DEFINE left == OneLess(fs)
  <1>0. fs \in Store /\ timeouts \in Nat
    BY Now
  <1>1. StoreOK(fs, conn, whole, version, may, spoilt, timeouts)
    BY DEF StoreNow
  <1>2. fs' = r.store /\ timeouts' = timeouts + r.late
    BY DEF Closed
  <1>3. \/ r.ok /\ r.late = 0 /\ r.store \in LetGo(Committed(left, Part))
        \/ ~r.ok /\ r.late = 0 /\ r.store \in LetGo(Failed(left, Part, FALSE))
        \/ ~r.ok /\ r.late = 1 /\ r.store = fs
    BY <1>0, ClosingsIs
  <1>4. /\ a = "REMOVE" \/ conn[c].at = "WHOLE" =>
               /\ StoreOK(Committed(left, Part), conn', whole, version, may, spoilt, timeouts)
               /\ Committed(left, Part).closed[Pad] = fs.closed[Pad]
        /\ a = "REMOVE" =>
               /\ StoreOK(Failed(left, Part, FALSE), conn', whole, version, may, spoilt, timeouts)
               /\ Failed(left, Part, FALSE).closed[Pad] = fs.closed[Pad]
               /\ StoreOK(fs, conn', whole, version, may, spoilt, timeouts + 1)
    <2> DEFINE dn == Moved(conn, c, a)
    <2>2. conn' = dn
      BY DEF Moved
    <2>3. a = "REMOVE" \/ conn[c].at = "WHOLE" =>
              StoreOK(Committed(OneLess(fs), Part), Moved(conn, c, a), whole, version, may, spoilt, timeouts)
      BY <1>1, ClosePart
    <2>4. /\ a = "REMOVE" \/ conn[c].at = "WHOLE" =>
                 /\ StoreOK(Committed(OneLess(fs), Part), Moved(conn, c, a), whole, version, may, spoilt, timeouts)
                 /\ Committed(OneLess(fs), Part).closed[Pad] = fs.closed[Pad]
          /\ a = "REMOVE" =>
                 /\ StoreOK(Failed(OneLess(fs), Part, FALSE),
                            Moved(conn, c, a), whole, version, may, spoilt, timeouts)
                 /\ Failed(OneLess(fs), Part, FALSE).closed[Pad] = fs.closed[Pad]
                 /\ StoreOK(fs, Moved(conn, c, a), whole, version, may, spoilt, timeouts + 1)
      BY <1>1, <2>3, ClosePart
    <2> QED BY <2>2, <2>4
  <1> HIDE DEF left
  <1>5. CASE r.ok /\ r.late = 0 /\ r.store \in LetGo(Committed(left, Part))
    <2>1. timeouts' = timeouts
      BY <1>0, <1>2, <1>5
    <2>2. /\ StoreOK(fs', conn', whole, version, may, spoilt, timeouts)
          /\ fs'.closed[Pad] = fs.closed[Pad]
      BY <1>2, <1>4, <1>5, LetGoKeeps
    <2> QED BY <2>1, <2>2 DEF StoreNow, PadKept
  <1>6. CASE ~r.ok /\ r.late = 0 /\ r.store \in LetGo(Failed(left, Part, FALSE))
    <2>1. timeouts' = timeouts
      BY <1>0, <1>2, <1>6
    <2>2. /\ StoreOK(fs', conn', whole, version, may, spoilt, timeouts)
          /\ fs'.closed[Pad] = fs.closed[Pad]
      <3> DEFINE x == Failed(left, Part, FALSE)
      <3>1. a = "REMOVE"
        BY <1>6
      <3>2. StoreOK(x, conn', whole, version, may, spoilt, timeouts) /\ x.closed[Pad] = fs.closed[Pad]
        BY <1>4, <3>1
      <3>3. fs' \in LetGo(x)
        BY <1>2, <1>6
      <3> HIDE DEF x
      <3> QED BY <3>2, <3>3, LetGoKeeps
    <2> QED BY <2>1, <2>2 DEF StoreNow, PadKept
  <1>7. CASE ~r.ok /\ r.late = 1 /\ r.store = fs
    BY <1>2, <1>4, <1>7 DEF StoreNow, PadKept
  <1> QED BY <1>3, <1>5, <1>6, <1>7

LEMMA UploadCloseStep ==
    ASSUME StoreNow, NEW c \in Conns, UploadClose(c) \/ UploadDies(c)
    PROVE  StoreNow' /\ PadKept
  <1>1. CASE UploadClose(c)
    <2>1. conn[c].at = "WHOLE" /\ UNCHANGED <<whole, version, may, spoilt>>
      BY <1>1 DEF UploadClose, history
    <2>2. PICK r \in Closings(Part) :
              Closed(r) /\ conn' = [conn EXCEPT ![c].at = IF r.ok THEN "RENAME" ELSE "REMOVE"]
      BY <1>1 DEF UploadClose
    <2> DEFINE a == IF r.ok THEN "RENAME" ELSE "REMOVE"
    <2>3. a \in {"RENAME", "REMOVE"} /\ conn' = [conn EXCEPT ![c].at = a] /\ (a = "RENAME" => r.ok)
      BY <2>2
    <2> HIDE DEF a
    <2> QED BY <2>1, <2>2, <2>3, UploadCloses
  <1>2. CASE UploadDies(c)
    <2>1. conn[c].at \in {"BODY", "WHOLE", "SHORT"} /\ UNCHANGED <<whole, version, may, spoilt>>
      BY <1>2 DEF UploadDies, history
    <2>2. (\E r \in Closings(Part) : Closed(r)) /\ conn' = [conn EXCEPT ![c].at = "REMOVE"]
      BY <1>2 DEF UploadDies
    <2>3. PICK r \in Closings(Part) : Closed(r)
      BY <2>2
    <2> QED BY <2>1, <2>2, <2>3, UploadCloses
  <1> QED BY <1>1, <1>2

LEMMA UploadRenameStep ==
    ASSUME StoreNow, NEW c \in Conns, UploadRename(c)
    PROVE  StoreNow' /\ PadKept
  <1>0. /\ fs \in Store /\ conn \in ConnType /\ version \in 0 .. MaxVersion
        /\ may \in MayType
    BY Now
  <1>1. StoreOK(fs, conn, whole, version, may, spoilt, timeouts)
    BY DEF StoreNow
  <1>2. conn[c].at = "RENAME" /\ UNCHANGED <<whole, version, timeouts>>
    BY DEF UploadRename, bounds
  <1>3. PICK r \in Rename(fs, Part, Dest) \cup {Result(fs, FALSE)} :
            /\ fs' = r.store
            /\ conn' = [conn EXCEPT ![c].at = IF r.ok THEN "IDLE" ELSE "REMOVE"]
            /\ may' = [may EXCEPT ![Dest] = IF r.ok THEN {conn[c].version} ELSE may[Dest] \cup {conn[c].version}]
            /\ spoilt' = IF fs'.closed[Dest].version = conn[c].version THEN spoilt \ {Dest} ELSE spoilt
    BY DEF UploadRename
  <1> DEFINE a == IF r.ok THEN "IDLE" ELSE "REMOVE"
  <1>4. a \in {"IDLE", "REMOVE"} /\ conn' = [conn EXCEPT ![c].at = a]
    BY <1>3
  <1> HIDE DEF a
  <1>5. /\ conn[c].version \in 1 .. version /\ conn[c].version \in 0 .. MaxVersion /\ conn[c].version /= 0
        /\ fs.closed[Dest].version /= conn[c].version
    <2>1. conn[c].version \in 1 .. version /\ \A n \in Kept : fs.closed[n].version /= conn[c].version
      BY <1>2, Now DEF VersionsInv
    <2>2. conn[c].version \in 0 .. MaxVersion /\ conn[c].version /= 0
      BY <1>0, <2>1, StoreConstants
    <2> QED BY <2>1, <2>2, KeptIs
  <1>6. /\ may' \in MayType /\ may'[Pad] = may[Pad]
        /\ conn[c].version \in may'[Dest]
        /\ r.ok \/ may[Dest] \subseteq may'[Dest]
    <2>1. may[Dest] \subseteq 0 .. MaxVersion
      BY <1>0, KeptIs DEF MayType
    <2>2. /\ may'[Dest] = (IF r.ok THEN {conn[c].version} ELSE may[Dest] \cup {conn[c].version})
          /\ may'[Pad] = may[Pad]
      BY <1>0, <1>3, KeptIs, NamesIs DEF MayType
    <2>3. may' \in MayType
      BY <1>0, <1>3, <1>5, <2>1 DEF MayType
    <2> QED BY <2>2, <2>3
  <1>7. \A d \in Conns : conn'[d].at /= "RENAME"
    <2>1. \A d \in Conns : d /= c => conn[d].at = "IDLE"
      BY <1>2, Now DEF HandlesInv
    <2> QED BY <1>0, <1>4, <2>1 DEF ConnType
  <1>8. PICK q \in Copy(fs, Part, Dest) :
            \/ q.ok /\ CanDelete(q.store, Part) /\ r.ok /\ r.store \in LetGo(Without(q.store, {Part}))
            \/ ~r.ok /\ (r.store = q.store \/ r.store \in LetGo(q.store))
    BY RenameIs
  <1>9. q.ok \/ may[Dest] \subseteq may'[Dest]
    BY <1>6, <1>8
  <1>10. /\ q.ok => /\ StoreOK(q.store, conn', whole, version, may', spoilt \ {Dest}, timeouts)
                    /\ q.store.closed[Dest].version = conn[c].version
                    /\ \A f \in q.store.failed : f.name /= Dest
         /\ ~q.ok => /\ StoreOK(q.store, conn', whole, version, may', spoilt, timeouts)
                     /\ q.store.closed[Dest] = fs.closed[Dest]
         /\ q.store.closed[Pad] = fs.closed[Pad]
    <2> DEFINE dn == conn'
               m2 == may'
    <2>1. /\ dn = Moved(conn, c, a) /\ a \in {"IDLE", "REMOVE"}
          /\ m2 \in MayType /\ m2[Pad] = may[Pad]
          /\ conn[c].version \in m2[Dest] /\ (q.ok \/ may[Dest] \subseteq m2[Dest])
      BY <1>4, <1>6, <1>9 DEF Moved
    <2> HIDE DEF dn, m2
    <2>2. /\ StoreOK(fs, conn, whole, version, may, spoilt, timeouts) /\ conn[c].at = "RENAME"
          /\ c \in Conns /\ a \in {"IDLE", "REMOVE"} /\ q \in Copy(fs, Part, Dest)
      BY <1>1, <1>2, <2>1
    <2>3. Admits(may, m2, conn[c].version, q.ok)
      BY <2>1 DEF Admits
    <2>4. CopyLeaves(q, fs, conn, whole, version, m2, spoilt, timeouts, c, a)
      BY <2>2, <2>3, CopyKeeps
    <2> QED BY <2>1, <2>4 DEF dn, m2, CopyLeaves
  <1>11. CASE q.ok
    <2> DEFINE u == Without(q.store, {Part})
    <2>1. CanDelete(q.store, Part) =>
              /\ StoreOK(u, conn', whole, version, may', spoilt \ {Dest}, timeouts)
              /\ u.closed[Pad] = q.store.closed[Pad] /\ u.closed[Dest] = q.store.closed[Dest]
              /\ u.failed = q.store.failed
      <3>1. u = Without(q.store, {Part})
        OBVIOUS
      <3> HIDE DEF u
      <3>2. StoreOK(q.store, conn', whole, version, may', spoilt \ {Dest}, timeouts)
        BY <1>10, <1>11
      <3> DEFINE x == q.store
                 dn == conn'
                 m2 == may'
                 sp2 == spoilt \ {Dest}
      <3>3. StoreOK(x, dn, whole, version, m2, sp2, timeouts) /\ u = Without(x, {Part})
        BY <3>1, <3>2
      <3>4. \A d \in Conns : dn[d].at /= "RENAME"
        BY <1>7
      <3> HIDE DEF u, x, dn, m2, sp2
      <3>5. CanDelete(x, Part) =>
                /\ StoreOK(u, dn, whole, version, m2, sp2, timeouts)
                /\ u.closed[Pad] = x.closed[Pad] /\ u.closed[Dest] = x.closed[Dest]
                /\ u.failed = x.failed
        BY <3>3, <3>4, DropPart
      <3> QED BY <3>5 DEF x, dn, m2, sp2
    <2> HIDE DEF u
    <2>2. \E x \in {q.store, u} :
              /\ fs' = x \/ fs' \in LetGo(x)
              /\ StoreOK(x, conn', whole, version, may', spoilt \ {Dest}, timeouts)
              /\ x.closed[Pad] = fs.closed[Pad] /\ x.closed[Dest].version = conn[c].version
              /\ \A f \in x.failed : f.name /= Dest
      BY <1>3, <1>8, <1>10, <1>11, <2>1 DEF u
    <2>3. /\ StoreOK(fs', conn', whole, version, may', spoilt \ {Dest}, timeouts)
          /\ fs'.closed[Pad] = fs.closed[Pad] /\ fs'.closed[Dest].version = conn[c].version
      BY <2>2, LetGoKeeps
    <2>4. spoilt' = spoilt \ {Dest}
      BY <1>3, <2>3
    <2> QED BY <1>2, <2>3, <2>4, NamesIs DEF StoreNow, PadKept
  <1>12. CASE ~q.ok
    <2>1. fs' = q.store \/ fs' \in LetGo(q.store)
      BY <1>3, <1>8, <1>12
    <2>2. /\ StoreOK(fs', conn', whole, version, may', spoilt, timeouts)
          /\ fs'.closed[Pad] = fs.closed[Pad] /\ fs'.closed[Dest] \in {fs.closed[Dest], Absent}
      BY <1>10, <1>12, <2>1, LetGoKeeps
    <2>3. spoilt' = spoilt
      BY <1>3, <1>5, <2>2 DEF Absent
    <2> QED BY <1>2, <2>2, <2>3 DEF StoreNow, PadKept
  <1> QED BY <1>11, <1>12

\* A file that waits to be removed until its writer is let go.
LEMMA MarkKeeps ==
    ASSUME NEW s, NEW cn, NEW w, NEW v, NEW m, NEW sp, NEW late,
           StoreOK(s, cn, w, v, m, sp, late), NEW n \in {Part, Dest}, n = Dest => 0 \in m[Dest],
           NEW t, t = [s EXCEPT !.failed = {IF f.name = n THEN [f EXCEPT !.remove = TRUE] ELSE f : f \in @}]
    PROVE  /\ StoreOK(t, cn, w, v, m, sp, late)
           /\ t.closed = s.closed
  <1> DEFINE marked == {IF f.name = n THEN [f EXCEPT !.remove = TRUE] ELSE f : f \in s.failed}
  <1>1. s \in Store /\ Typed(cn, w, v, m, sp, late)
    BY DEF StoreOK
  <1>2. s.failed \subseteq [name: Names, remove: BOOLEAN]
    BY <1>1, StoreFields
  <1>3. \A f \in marked : /\ f \in [name: Names, remove: BOOLEAN]
                          /\ \E g \in s.failed : f.name = g.name /\ (f.remove => g.remove \/ f.name = n)
    BY <1>2
  <1>4. t = [s EXCEPT !.failed = marked]
    OBVIOUS
  <1> HIDE DEF marked
  <1>5. /\ t \in Store /\ t.failed = marked
        /\ t.up = s.up /\ t.closed = s.closed /\ t.writing = s.writing /\ t.reading = s.reading /\ t.held = s.held
    BY <1>1, <1>3, <1>4 DEF Store
  <1>6. Open(t) = Open(s)
    BY <1>5, OpenSame
  <1>7. HandlesInv(t, cn, w, late)
    <2>1. \A f \in s.failed : /\ s.up => s.writing[f.name].is = "OPEN"
                              /\ f.name = Part => Up(cn) = {}
                              /\ f.name = w.name => w.at = "IDLE"
      BY DEF StoreOK, HandlesInv
    <2>2. \A f \in t.failed : /\ t.up => t.writing[f.name].is = "OPEN"
                              /\ f.name = Part => Up(cn) = {}
                              /\ f.name = w.name => w.at = "IDLE"
      BY <1>3, <1>5, <2>1
    <2> QED BY <1>5, <1>6, <2>2 DEF StoreOK, HandlesInv
  <1>8. VersionsInv(t, cn, w, v)
    BY <1>5 DEF StoreOK, VersionsInv
  <1>9. RenameInv(t, cn)
    <2>1. (\A f \in s.failed : f.name /= Part) => (\A f \in t.failed : f.name /= Part)
      BY <1>3, <1>5
    <2> QED BY <1>5, <2>1 DEF StoreOK, RenameInv
  <1>10. ContentInv(t, m, sp)
    <2>1. \A f \in s.failed : f.remove => f.name /= Pad /\ (f.name = Dest => Dest \in sp \/ 0 \in m[Dest])
      BY DEF StoreOK, ContentInv
    <2>2. \A f \in t.failed : f.remove => f.name /= Pad /\ (f.name = Dest => Dest \in sp \/ 0 \in m[Dest])
      BY <1>3, <1>5, <2>1, NamesIs
    <2> QED BY <1>5, <2>2 DEF StoreOK, ContentInv, GoodIn
  <1> QED BY <1>1, <1>5, <1>7, <1>8, <1>9, <1>10 DEF StoreOK

LEMMA UploadRemoveStep ==
    ASSUME StoreNow, NEW c \in Conns, UploadRemove(c)
    PROVE  StoreNow' /\ PadKept
  <1>0. fs \in Store /\ conn \in ConnType
    BY Now
  <1>1. conn[c].at = "REMOVE" /\ UNCHANGED <<whole, version, may, spoilt, timeouts>>
    BY DEF UploadRemove, history, bounds
  <1>2. /\ \E r \in Remove(fs, Part) \cup {Result(fs, FALSE)} : fs' = r.store
        /\ conn' = [conn EXCEPT ![c].at = "IDLE"]
    BY DEF UploadRemove
  <1>3. /\ conn' \in ConnType /\ conn'[c].at = "IDLE"
        /\ \A d \in Conns : d /= c => conn'[d] = conn[d]
    BY <1>0, <1>2 DEF ConnType
  <1>4. \A d \in Conns : d /= c => conn[d].at = "IDLE"
    BY <1>1, Now DEF HandlesInv
  <1>5. \A d \in Conns : conn'[d].at = "IDLE"
    BY <1>3, <1>4
  <1>6. Up(conn) = {} /\ Up(conn') = {}
    BY <1>1, <1>4, <1>5 DEF Up
  <1>7. StoreOK(fs, conn', whole, version, may, spoilt, timeouts)
    <2>1. HandlesInv(fs, conn', whole, timeouts)
      BY <1>5, <1>6, Now DEF HandlesInv
    <2>2. VersionsInv(fs, conn', whole, version)
      BY <1>5, Now DEF VersionsInv
    <2>3. RenameInv(fs, conn')
      BY <1>5 DEF RenameInv
    <2>4. Typed(conn', whole, version, may, spoilt, timeouts)
      BY <1>3, Now DEF Typed
    <2> QED BY <2>1, <2>2, <2>3, <2>4, Now DEF StoreOK
  <1>8. PICK r \in Remove(fs, Part) \cup {Result(fs, FALSE)} : fs' = r.store
    BY <1>2
  <1> DEFINE marked == [fs EXCEPT !.failed = {IF f.name = Part THEN [f EXCEPT !.remove = TRUE] ELSE f : f \in @}]
  <1>9. \/ fs' \in LetGo(marked)
        \/ CanDelete(fs, Part) /\ fs' = Without(fs, {Part})
        \/ fs' = fs
    <2>1. \/ \E t \in LetGo(marked) : r = Result(t, TRUE)
          \/ CanDelete(fs, Part) /\ r = Result(Without(fs, {Part}), TRUE)
          \/ r = Result(fs, FALSE)
      BY <1>8 DEF Remove
    <2> HIDE DEF marked
    <2> QED BY <1>8, <2>1 DEF Result
  <1>10. StoreOK(marked, conn', whole, version, may, spoilt, timeouts) /\ marked.closed = fs.closed
    BY <1>7, MarkKeeps, NamesIs
  <1> HIDE DEF marked
  <1>11. CanDelete(fs, Part) /\ fs' = Without(fs, {Part}) =>
             /\ StoreOK(fs', conn', whole, version, may, spoilt, timeouts)
             /\ fs'.closed[Pad] = fs.closed[Pad]
    BY <1>5, <1>7, DropPart
  <1>12. StoreOK(fs', conn', whole, version, may, spoilt, timeouts) /\ fs'.closed[Pad] = fs.closed[Pad]
    BY <1>7, <1>9, <1>10, <1>11, LetGoKeeps
  <1> QED BY <1>1, <1>12 DEF StoreNow, PadKept

\* The destination goes once nobody has it open.
LEMMA DropDest ==
    ASSUME NEW s, NEW cn, NEW w, NEW v, NEW m, NEW sp, NEW late, NEW t,
           StoreOK(s, cn, w, v, m, sp, late), CanDelete(s, Dest), 0 \in m[Dest], t = Without(s, {Dest})
    PROVE  StoreOK(t, cn, w, v, m, sp, late) /\ t.closed[Pad] = s.closed[Pad] /\ t.closed[Dest] = Absent
  <1>1. s \in Store /\ Typed(cn, w, v, m, sp, late) /\ w \in WholeType /\ v \in Nat
    BY DEF StoreOK, Typed
  <1>2. /\ t \in Store
        /\ t.up = s.up /\ t.reading = s.reading /\ t.held = s.held /\ t.failed = s.failed
        /\ t.closed[Dest] = Absent
        /\ \A k \in Names : k /= Dest => t.closed[k] = s.closed[k] /\ t.writing[k] = s.writing[k]
    BY <1>1, WithoutIs, NamesIs
  <1>3. s.up /\ s.writing[Dest].is /= "OPEN"
    BY DEF CanDelete
  <1>4. \A f \in s.failed : /\ s.writing[f.name].is = "OPEN" /\ f.name /= Dest /\ f.name \in Names
                            /\ f.name = Part => Up(cn) = {}
                            /\ f.name = w.name => w.at = "IDLE"
    BY <1>1, <1>3, StoreFields DEF StoreOK, HandlesInv
  <1>5. w.name \in Names /\ (w.at /= "IDLE" => w.name /= Dest)
    BY <1>1, <1>3, NamesIs, KeptIs DEF WholeType, StoreOK, HandlesInv
  <1>6. Open(t) = Open(s)
    BY <1>2, OpenSame
  <1>7. HandlesInv(t, cn, w, late)
    <2>1. w.at /= "IDLE" => /\ t.writing[w.name].is = "OPEN" /\ t.writing[w.name].got.version = w.version
                            /\ w.at = "WROTE" => t.writing[w.name].got.whole
      BY <1>2, <1>5 DEF StoreOK, HandlesInv
    <2>2. \A f \in t.failed : /\ t.up => t.writing[f.name].is = "OPEN"
                              /\ f.name = Part => Up(cn) = {}
                              /\ f.name = w.name => w.at = "IDLE"
      BY <1>2, <1>4
    <2>3. t.writing[Part] = s.writing[Part]
      BY <1>2, NamesIs
    <2> QED BY <1>2, <1>6, <2>1, <2>2, <2>3 DEF StoreOK, HandlesInv
  <1>8. VersionsInv(t, cn, w, v)
    <2>1. \A n \in Names : t.closed[n].version <= v
      BY <1>1, <1>2 DEF StoreOK, VersionsInv, Absent
    <2>2. \A n \in Names : t.closed[n] = s.closed[n] \/ t.closed[n].version = 0
      BY <1>2 DEF Absent
    <2>3. ASSUME NEW c \in Conns, cn[c].at \in {"BODY", "WHOLE", "SHORT", "RENAME"}
          PROVE  /\ cn[c].version \in 1 .. v
                 /\ \A n \in Kept : t.closed[n].version /= cn[c].version
                 /\ w.at /= "IDLE" => w.version /= cn[c].version
      <3>1. /\ cn[c].version \in 1 .. v
            /\ \A n \in Kept : s.closed[n].version /= cn[c].version
            /\ w.at /= "IDLE" => w.version /= cn[c].version
        BY <2>3 DEF StoreOK, VersionsInv
      <3> QED BY <2>2, <3>1, NamesIs, KeptIs
    <2> QED BY <2>1, <2>3 DEF StoreOK, VersionsInv
  <1>9. RenameInv(t, cn)
    BY <1>2, NamesIs DEF StoreOK, RenameInv
  <1>10. t.closed[Pad] = s.closed[Pad]
    BY <1>2, NamesIs
  <1>11. ContentInv(t, m, sp)
    <2>1. Pad \in sp \/ GoodIn(t, m, Pad)
      BY <1>10, KeptIs DEF StoreOK, ContentInv, GoodIn
    <2>2. GoodIn(t, m, Dest)
      BY <1>2 DEF GoodIn
    <2>3. \A f \in t.failed : f.remove => f.name /= Pad /\ (f.name = Dest => Dest \in sp \/ 0 \in m[Dest])
      BY <1>2 DEF StoreOK, ContentInv
    <2> QED BY <2>1, <2>2, <2>3, KeptIs DEF ContentInv
  <1> QED BY <1>1, <1>2, <1>7, <1>8, <1>9, <1>10, <1>11 DEF StoreOK

\* A name may always be allowed more; and one with no closed file may be none.
LEMMA MayGrow ==
    ASSUME NEW s, NEW cn, NEW w, NEW v, NEW m, NEW sp, NEW late, NEW m2,
           StoreOK(s, cn, w, v, m, sp, late), m2 \in MayType, \A n \in Kept : m[n] \subseteq m2[n]
    PROVE  StoreOK(s, cn, w, v, m2, sp, late)
  <1>1. Typed(cn, w, v, m2, sp, late)
    BY DEF StoreOK, Typed
  <1>2. ContentInv(s, m2, sp)
    BY KeptIs DEF StoreOK, ContentInv, GoodIn
  <1> QED BY <1>1, <1>2 DEF StoreOK

LEMMA MayGone ==
    ASSUME NEW s, NEW cn, NEW w, NEW v, NEW m, NEW sp, NEW late, NEW m2,
           StoreOK(s, cn, w, v, m, sp, late), m2 \in MayType, m2[Pad] = m[Pad], 0 \in m2[Dest],
           s.closed[Dest] = Absent
    PROVE  StoreOK(s, cn, w, v, m2, sp \ {Dest}, late)
  <1>1. Typed(cn, w, v, m2, sp \ {Dest}, late)
    BY DEF StoreOK, Typed
  <1>2. ContentInv(s, m2, sp \ {Dest})
    <2>1. Pad \in sp \ {Dest} \/ GoodIn(s, m2, Pad)
      BY KeptIs, NamesIs DEF StoreOK, ContentInv, GoodIn
    <2>2. GoodIn(s, m2, Dest) /\ 0 \in m2[Dest]
      BY DEF GoodIn
    <2> QED BY <2>1, <2>2, KeptIs DEF StoreOK, ContentInv
  <1> QED BY <1>1, <1>2 DEF StoreOK

LEMMA DeleteStep ==
    ASSUME StoreNow, DeleteFile
    PROVE  StoreNow' /\ PadKept
  <1>0. fs \in Store /\ may \in MayType
    BY Now
  <1>1. UNCHANGED <<conn, whole, version, timeouts>>
    BY DEF DeleteFile, bounds
  <1>2. PICK r \in Remove(fs, Dest) :
            /\ r.ok /\ fs' = r.store
            /\ may' = [may EXCEPT ![Dest] = IF Gone(fs', Dest) THEN {0} ELSE may[Dest] \cup {0}]
            /\ spoilt' = IF fs'.closed[Dest] = Absent THEN spoilt \ {Dest} ELSE spoilt
    BY DEF DeleteFile
  <1> DEFINE m2 == [may EXCEPT ![Dest] = may[Dest] \cup {0}]
             marked == [fs EXCEPT !.failed = {IF f.name = Dest THEN [f EXCEPT !.remove = TRUE] ELSE f : f \in @}]
  <1>3. 0 \in 0 .. MaxVersion
    BY StoreConstants
  <1>4. /\ m2 \in MayType /\ m2[Dest] = may[Dest] \cup {0} /\ m2[Pad] = may[Pad] /\ 0 \in m2[Dest]
        /\ \A n \in Kept : may[n] \subseteq m2[n]
    BY <1>0, <1>3, KeptIs, NamesIs DEF MayType
  <1>5. /\ may' \in MayType /\ may'[Pad] = may[Pad] /\ 0 \in may'[Dest]
        /\ fs'.closed[Dest] /= Absent => may' = m2
    <2>1. Gone(fs', Dest) => may' = [may EXCEPT ![Dest] = {0}]
      BY <1>2
    <2>2. ~Gone(fs', Dest) => may' = m2
      BY <1>2
    <2> HIDE DEF m2
    <2>3. Gone(fs', Dest) =>
              may' \in MayType /\ may'[Pad] = may[Pad] /\ may'[Dest] = {0} /\ fs'.closed[Dest] = Absent
      BY <1>0, <1>3, <2>1, KeptIs, NamesIs DEF MayType, Gone
    <2> QED BY <1>4, <2>2, <2>3
  <1>6. \/ fs' \in LetGo(marked)
        \/ CanDelete(fs, Dest) /\ fs' = Without(fs, {Dest})
    <2>1. \/ \E t \in LetGo(marked) : r = Result(t, TRUE)
          \/ CanDelete(fs, Dest) /\ r = Result(Without(fs, {Dest}), TRUE)
          \/ r = Result(fs, FALSE)
      BY <1>2 DEF Remove
    <2> HIDE DEF marked
    <2> QED BY <1>2, <2>1 DEF Result
  <1> HIDE DEF m2
  <1>7. StoreOK(fs, conn, whole, version, m2, spoilt, timeouts)
    BY <1>4, MayGrow DEF StoreNow
  <1>8. StoreOK(marked, conn, whole, version, m2, spoilt, timeouts) /\ marked.closed = fs.closed
    BY <1>4, <1>7, MarkKeeps, NamesIs
  <1> HIDE DEF marked
  <1>9. CanDelete(fs, Dest) /\ fs' = Without(fs, {Dest}) =>
            /\ StoreOK(fs', conn, whole, version, m2, spoilt, timeouts)
            /\ fs'.closed[Pad] = fs.closed[Pad]
    BY <1>4, <1>7, DropDest
  <1>10. StoreOK(fs', conn, whole, version, m2, spoilt, timeouts) /\ fs'.closed[Pad] = fs.closed[Pad]
    BY <1>6, <1>8, <1>9, LetGoKeeps
  <1>11. CASE fs'.closed[Dest] = Absent
    <2>1. spoilt' = spoilt \ {Dest} /\ 0 \in may'[Dest] /\ may'[Pad] = m2[Pad] /\ may' \in MayType
      BY <1>2, <1>4, <1>5, <1>11
    <2>2. StoreOK(fs', conn, whole, version, may', spoilt', timeouts)
      <3> DEFINE x == fs'
                 m3 == may'
      <3>1. /\ StoreOK(x, conn, whole, version, m2, spoilt, timeouts)
            /\ m3 \in MayType /\ m3[Pad] = m2[Pad] /\ 0 \in m3[Dest] /\ x.closed[Dest] = Absent
        BY <1>10, <1>11, <2>1
      <3> HIDE DEF x, m3
      <3>2. StoreOK(x, conn, whole, version, m3, spoilt \ {Dest}, timeouts)
        BY <3>1, MayGone
      <3> QED BY <2>1, <3>2 DEF x, m3
    <2> QED BY <1>1, <1>10, <2>1, <2>2, NamesIs DEF StoreNow, PadKept
  <1>12. CASE fs'.closed[Dest] /= Absent
    <2>1. spoilt' = spoilt /\ may' = m2
      BY <1>2, <1>5, <1>12
    <2> QED BY <1>1, <1>10, <2>1 DEF StoreNow, PadKept
  <1> QED BY <1>11, <1>12

\* A store where only the readers and their count change.
LEMMA ReadersStep ==
    ASSUME NEW s, NEW cn, NEW w, NEW v, NEW m, NEW sp, NEW late, NEW t,
           StoreOK(s, cn, w, v, m, sp, late), t \in Store,
           t.up = s.up, t.closed = s.closed, t.writing = s.writing, t.failed = s.failed,
           IsFiniteSet(Open(t)), t.held - Cardinality(Open(t)) = s.held - Cardinality(Open(s))
    PROVE  StoreOK(t, cn, w, v, m, sp, late) /\ t.closed[Pad] = s.closed[Pad]
  <1> DEFINE rest == (IF Up(cn) = {} THEN 0 ELSE 1) + (IF w.at = "IDLE" THEN 0 ELSE 1)
  <1>1. /\ IsFiniteSet(Open(s)) /\ late \in Nat /\ s.held \in Nat /\ t.held \in Nat
        /\ s.held = (IF Up(cn) = {} THEN 0 ELSE 1) + Cardinality(Open(s)) + (IF w.at = "IDLE" THEN 0 ELSE 1) + late
    BY StoreFields DEF StoreOK, HandlesInv, Typed
  <1>2. Cardinality(Open(s)) \in Nat /\ Cardinality(Open(t)) \in Nat
    BY <1>1, FS_CardinalityType
  <1>3. (IF Up(cn) = {} THEN 0 ELSE 1) \in Nat /\ (IF w.at = "IDLE" THEN 0 ELSE 1) \in Nat
    OBVIOUS
  <1>4. t.held = (IF Up(cn) = {} THEN 0 ELSE 1) + Cardinality(Open(t)) + (IF w.at = "IDLE" THEN 0 ELSE 1) + late
    BY <1>1, <1>2, <1>3
  <1>5. HandlesInv(t, cn, w, late)
    BY <1>4 DEF StoreOK, HandlesInv
  <1>6. VersionsInv(t, cn, w, v) /\ RenameInv(t, cn)
    BY DEF StoreOK, VersionsInv, RenameInv
  <1>7. ContentInv(t, m, sp)
    BY DEF StoreOK, ContentInv, GoodIn
  <1> QED BY <1>5, <1>6, <1>7 DEF StoreOK

LEMMA ReaderSteps ==
    ASSUME StoreNow, NEW r \in Readers, ReadOpen(r) \/ ReadClose(r) \/ ReadReopenFails(r)
    PROVE  StoreNow' /\ PadKept
  <1>0. fs \in Store /\ IsFiniteSet(Open(fs))
    BY Now DEF HandlesInv
  <1>1. UNCHANGED <<conn, whole, version, may, spoilt, timeouts>>
    BY DEF ReadOpen, ReadClose, ReadReopenFails, history, bounds
  <1>2. Cardinality(Open(fs)) \in Nat /\ fs.held \in Nat
    BY <1>0, StoreFields, FS_CardinalityType
  <1>3. StoreOK(fs, conn, whole, version, may, spoilt, timeouts)
    BY DEF StoreNow
  <1>4. CASE ReadOpen(r)
    <2>1. PICK n \in Names : fs.reading[r] = NoName /\ fs' = OpenRead(fs, r, n)
      BY <1>4 DEF ReadOpen
    <2>2. /\ fs' \in Store
          /\ fs'.up = fs.up /\ fs'.closed = fs.closed /\ fs'.writing = fs.writing /\ fs'.failed = fs.failed
          /\ fs'.held = fs.held + 1 /\ fs'.reading = [fs.reading EXCEPT ![r] = n]
      <3> DEFINE reading == [fs.reading EXCEPT ![r] = n]
                 k == fs.held + 1
      <3>1. reading \in [Readers -> Names \cup {NoName}] /\ k \in Nat
        BY <1>0, StoreFields
      <3>2. fs' = [fs EXCEPT !.reading = reading, !.held = k]
        BY <2>1 DEF OpenRead
      <3> HIDE DEF reading, k
      <3>3. /\ fs' \in Store
            /\ fs'.up = fs.up /\ fs'.closed = fs.closed /\ fs'.writing = fs.writing /\ fs'.failed = fs.failed
            /\ fs'.held = k /\ fs'.reading = reading
        BY <1>0, <3>1, <3>2 DEF Store
      <3> QED BY <3>3 DEF reading, k
    <2>3. IsFiniteSet(Open(fs')) /\ Cardinality(Open(fs')) = Cardinality(Open(fs)) + 1
      BY <1>0, <2>1, <2>2, OpenAdds
    <2>4. fs'.held - Cardinality(Open(fs')) = fs.held - Cardinality(Open(fs))
      BY <1>2, <2>2, <2>3
    <2>5. StoreOK(fs', conn, whole, version, may, spoilt, timeouts) /\ fs'.closed[Pad] = fs.closed[Pad]
      BY <1>3, <2>2, <2>3, <2>4, ReadersStep
    <2> QED BY <1>1, <2>5 DEF StoreNow, PadKept
  <1>5. CASE ReadClose(r) \/ ReadReopenFails(r)
    <2> DEFINE t == [fs EXCEPT !.reading[r] = NoName, !.held = @ - 1]
    <2>1. fs.reading[r] /= NoName /\ (fs' = t \/ fs' \in LetGo(t))
      BY <1>5 DEF ReadClose, ReadReopenFails, CloseRead, Reopened
    <2>2. Open(fs) /= {}
      BY <2>1 DEF Open
    <2>3. fs.held - 1 \in Nat
      BY <1>3, <2>2, OneHeld
    <2>4. /\ t \in Store
          /\ t.up = fs.up /\ t.closed = fs.closed /\ t.writing = fs.writing /\ t.failed = fs.failed
          /\ t.held = fs.held - 1 /\ t.reading = [fs.reading EXCEPT ![r] = NoName]
      <3> DEFINE reading == [fs.reading EXCEPT ![r] = NoName]
                 k == fs.held - 1
      <3>1. reading \in [Readers -> Names \cup {NoName}] /\ k \in Nat
        BY <1>0, <2>3, StoreFields
      <3>2. t = [fs EXCEPT !.reading = reading, !.held = k]
        OBVIOUS
      <3> HIDE DEF reading, k, t
      <3>3. /\ t \in Store
            /\ t.up = fs.up /\ t.closed = fs.closed /\ t.writing = fs.writing /\ t.failed = fs.failed
            /\ t.held = k /\ t.reading = reading
        BY <1>0, <3>1, <3>2 DEF Store
      <3> QED BY <3>3 DEF reading, k
    <2> HIDE DEF t
    <2>5. IsFiniteSet(Open(t)) /\ Cardinality(Open(t)) = Cardinality(Open(fs)) - 1
      BY <1>0, <2>1, <2>4, OpenDrops
    <2>6. t.held - Cardinality(Open(t)) = fs.held - Cardinality(Open(fs))
      BY <1>2, <2>4, <2>5
    <2>7. StoreOK(t, conn, whole, version, may, spoilt, timeouts) /\ t.closed[Pad] = fs.closed[Pad]
      BY <1>3, <2>4, <2>5, <2>6, ReadersStep
    <2>8. StoreOK(fs', conn, whole, version, may, spoilt, timeouts) /\ fs'.closed[Pad] = fs.closed[Pad]
      BY <2>1, <2>7, LetGoKeeps
    <2> QED BY <1>1, <2>8 DEF StoreNow, PadKept
  <1> QED BY <1>4, <1>5

LEMMA CleanStep ==
    ASSUME StoreNow, Clean
    PROVE  StoreNow' /\ PadKept
  <1>1. fs' \in LetGo(fs) /\ UNCHANGED <<conn, whole, version, may, spoilt, timeouts>>
    BY DEF Clean, history, bounds
  <1>2. StoreOK(fs', conn, whole, version, may, spoilt, timeouts) /\ fs'.closed[Pad] = fs.closed[Pad]
    BY <1>1, LetGoKeeps DEF StoreNow
  <1> QED BY <1>1, <1>2 DEF StoreNow, PadKept

LEMMA WholeOpenStep ==
    ASSUME StoreNow, WholeOpen
    PROVE  StoreNow' /\ PadKept
  <1>0. /\ fs \in Store /\ conn \in ConnType /\ whole \in WholeType
        /\ version \in 0 .. MaxVersion /\ timeouts \in Nat
    BY Now
  <1>1. PICK n \in Kept :
            /\ CanWrite(fs, n) /\ version < MaxVersion /\ version' = version + 1
            /\ fs' = OpenWrite(fs, n, Bytes(version', FALSE))
            /\ whole' = [at |-> "WRITE", name |-> n, version |-> version']
    BY DEF WholeOpen, NextVersion
  <1>2. whole.at = "IDLE" /\ UNCHANGED <<conn, may, spoilt, timeouts>>
    BY DEF WholeOpen, history, bounds
  <1>3. version' \in 0 .. MaxVersion /\ version' \in 1 .. version' /\ version' > version
    BY <1>0, <1>1, StoreConstants
  <1>4. n \in Names /\ n /= Part /\ Part \in Names
    BY NamesIs, KeptIs
  <1>5. /\ fs' \in Store
        /\ fs'.up = fs.up /\ fs'.closed = fs.closed /\ fs'.reading = fs.reading
        /\ fs'.held = fs.held + 1 /\ fs'.failed = fs.failed
        /\ fs'.writing[n].is = "OPEN" /\ fs'.writing[n].got.version = version'
        /\ \A k \in Names : k /= n => fs'.writing[k] = fs.writing[k]
    <2> DEFINE got == Bytes(version', FALSE)
    <2>1. got \in Content /\ got.version = version' /\ fs' = OpenWrite(fs, n, got)
      BY <1>1, <1>3 DEF Bytes, Content
    <2> HIDE DEF got
    <2> QED BY <1>0, <1>4, <2>1, OpenWriteIs
  <1>6. whole' \in WholeType /\ whole'.at = "WRITE" /\ whole'.name = n /\ whole'.version = version'
    BY <1>1, <1>3 DEF WholeType
  <1>7. fs.up /\ fs.writing[n].is /= "OPEN"
    BY <1>1 DEF CanWrite
  <1>8. Open(fs') = Open(fs)
    BY <1>5, OpenSame
  <1>9. HandlesInv(fs', conn', whole', timeouts')
    <2>1. /\ IsFiniteSet(Open(fs'))
          /\ fs'.held = (IF Up(conn) = {} THEN 0 ELSE 1) + Cardinality(Open(fs')) + 1 + timeouts
      <3>1. /\ IsFiniteSet(Open(fs))
            /\ fs.held = (IF Up(conn) = {} THEN 0 ELSE 1) + Cardinality(Open(fs)) + 0 + timeouts
        BY <1>2, Now DEF HandlesInv
      <3>2. Cardinality(Open(fs)) \in Nat /\ (IF Up(conn) = {} THEN 0 ELSE 1) \in Nat
        BY <3>1, FS_CardinalityType
      <3> QED BY <1>0, <1>5, <1>8, <3>1, <3>2
    <2>2. \A f \in fs.failed : f.name \in Names /\ f.name /= n /\ (fs.up => fs.writing[f.name].is = "OPEN")
                               /\ (f.name = Part => Up(conn) = {})
      <3>1. \A f \in fs.failed : f.name \in Names
        BY <1>0, StoreFields
      <3> QED BY <1>7, <3>1, Now DEF HandlesInv
    <2>3. \A f \in fs'.failed : /\ fs'.up => fs'.writing[f.name].is = "OPEN"
                                /\ f.name = Part => Up(conn) = {}
                                /\ f.name /= n
      BY <1>5, <2>2
    <2>4. \A c \in Up(conn) :
              /\ fs'.writing[Part].is = "OPEN" /\ fs'.writing[Part].got.version = conn[c].version
              /\ conn[c].at = "WHOLE" => fs'.writing[Part].got.whole
      BY <1>4, <1>5, Now DEF HandlesInv
    <2>5. \A c, d \in Conns : conn[c].at /= "IDLE" /\ conn[d].at /= "IDLE" => c = d
      BY Now DEF HandlesInv
    <2> QED BY <1>2, <1>5, <1>6, <2>1, <2>3, <2>4, <2>5 DEF HandlesInv
  <1>10. VersionsInv(fs', conn', whole', version')
    <2>1. \A k \in Names : fs.closed[k].version \in 0 .. MaxVersion /\ fs.closed[k].version <= version
      BY <1>0, Now, StoreFields DEF VersionsInv, Content
    <2>2. \A k \in Names : fs'.closed[k].version <= version'
      BY <1>0, <1>3, <1>5, <2>1
    <2>3. ASSUME NEW c \in Conns, conn[c].at \in {"BODY", "WHOLE", "SHORT", "RENAME"}
          PROVE  /\ conn[c].version \in 1 .. version' /\ conn[c].version /= version'
                 /\ \A k \in Kept : fs'.closed[k].version /= conn[c].version
      <3>1. conn[c].version \in 1 .. version /\ \A k \in Kept : fs.closed[k].version /= conn[c].version
        BY <2>3, Now DEF VersionsInv
      <3> QED BY <1>0, <1>3, <1>5, <3>1
    <2> QED BY <1>2, <1>3, <1>6, <2>2, <2>3 DEF VersionsInv
  <1>11. RenameInv(fs', conn')
    BY <1>2, <1>5, Now DEF RenameInv
  <1>12. ContentInv(fs', may', spoilt')
    BY <1>2, <1>5, Now DEF ContentInv, GoodIn
  <1>13. Typed(conn', whole', version', may', spoilt', timeouts')
    BY <1>2, <1>3, <1>6, Now DEF Typed
  <1>14. StoreNow'
    BY <1>5, <1>9, <1>10, <1>11, <1>12, <1>13 DEF StoreNow, StoreOK
  <1> QED BY <1>2, <1>5, <1>14 DEF PadKept

LEMMA WholeWriteStep ==
    ASSUME StoreNow, WholeWrite
    PROVE  StoreNow' /\ PadKept
  <1> DEFINE n == whole.name
  <1>0. /\ fs \in Store /\ conn \in ConnType /\ whole \in WholeType /\ timeouts \in Nat
        /\ n \in Names /\ n /= Part /\ Part \in Names
    BY Now, NamesIs
  <1>1. whole.at = "WRITE" /\ UNCHANGED <<conn, version, may, spoilt, timeouts>>
    BY DEF WholeWrite, history, bounds
  <1>2. \/ whole' = [whole EXCEPT !.at = "WROTE"] /\ fs' = [fs EXCEPT !.writing[n].got.whole = TRUE]
        \/ whole' = [whole EXCEPT !.at = "SHORT"] /\ fs' = fs
    BY DEF WholeWrite
  <1>3. /\ whole' \in WholeType /\ whole'.at \in {"WROTE", "SHORT"}
        /\ whole'.name = n /\ whole'.version = whole.version
    BY <1>0, <1>2 DEF WholeType
  <1>4. whole'.at = "WROTE" => fs' = [fs EXCEPT !.writing[n].got.whole = TRUE]
    BY <1>0, <1>2 DEF WholeType
  <1> HIDE DEF n
  <1>5. /\ fs' \in Store
        /\ fs'.up = fs.up /\ fs'.closed = fs.closed /\ fs'.reading = fs.reading
        /\ fs'.held = fs.held /\ fs'.failed = fs.failed
        /\ fs'.writing[n].is = fs.writing[n].is
        /\ fs'.writing[n].got.version = fs.writing[n].got.version
        /\ \A k \in Names : k /= n => fs'.writing[k] = fs.writing[k]
    <2>1. CASE fs' = [fs EXCEPT !.writing[n].got.whole = TRUE]
      BY <1>0, <2>1, WrittenIs
    <2>2. CASE fs' = fs
      BY <1>0, <2>2
    <2> QED BY <1>2, <2>1, <2>2
  <1>6. whole'.at = "WROTE" => fs'.writing[n].got.whole
    BY <1>0, <1>4, WrittenIs
  <1>7. Open(fs') = Open(fs)
    BY <1>5, OpenSame
  <1>8. HandlesInv(fs', conn', whole', timeouts')
    <2>1. /\ IsFiniteSet(Open(fs'))
          /\ fs'.held = (IF Up(conn) = {} THEN 0 ELSE 1) + Cardinality(Open(fs')) + 1 + timeouts
      BY <1>1, <1>5, <1>7, Now DEF HandlesInv
    <2>2. fs.writing[n].is = "OPEN" /\ fs.writing[n].got.version = whole.version
      BY <1>1, Now DEF HandlesInv, n
    <2>3. \A f \in fs.failed : f.name \in Names
      BY <1>0, StoreFields
    <2>4. \A f \in fs.failed : f.name /= n /\ (fs.up => fs.writing[f.name].is = "OPEN")
                               /\ (f.name = Part => Up(conn) = {})
      BY <1>1, Now DEF HandlesInv, n
    <2>5. \A f \in fs'.failed : /\ fs'.up => fs'.writing[f.name].is = "OPEN"
                                /\ f.name = Part => Up(conn) = {}
                                /\ f.name /= n
      BY <1>5, <2>3, <2>4
    <2>6. \A c \in Up(conn) :
              /\ fs'.writing[Part].is = "OPEN" /\ fs'.writing[Part].got.version = conn[c].version
              /\ conn[c].at = "WHOLE" => fs'.writing[Part].got.whole
      BY <1>0, <1>5, Now DEF HandlesInv
    <2>7. \A c, d \in Conns : conn[c].at /= "IDLE" /\ conn[d].at /= "IDLE" => c = d
      BY Now DEF HandlesInv
    <2> QED BY <1>1, <1>3, <1>5, <1>6, <2>1, <2>2, <2>5, <2>6, <2>7 DEF HandlesInv
  <1>9. VersionsInv(fs', conn', whole', version')
    BY <1>1, <1>3, <1>5, Now DEF VersionsInv
  <1>10. RenameInv(fs', conn') /\ ContentInv(fs', may', spoilt')
    BY <1>1, <1>5, Now DEF RenameInv, ContentInv, GoodIn
  <1>11. Typed(conn', whole', version', may', spoilt', timeouts')
    BY <1>1, <1>3, Now DEF Typed
  <1>12. StoreNow'
    BY <1>5, <1>8, <1>9, <1>10, <1>11 DEF StoreNow, StoreOK
  <1> QED BY <1>1, <1>5, <1>12 DEF PadKept

\* A close of the pad marker's file, done: its copy is to be stored, or it is spoilt.
PadWritten ==
    /\ whole.name = Pad
    /\ \/ /\ cache' = [cache EXCEPT !.storing = 1, !.version = whole.version]
          /\ fs'.closed[Pad].version = whole.version
       \/ cache' = cache /\ Pad \in spoilt'

LEMMA WholeCloseStep ==
    ASSUME StoreNow, WholeClose
    PROVE  StoreNow' /\ whole'.at = "IDLE" /\ ((PadKept /\ cache' = cache) \/ PadWritten)
  <1> DEFINE n == whole.name
             left == OneLess(fs)
             u == Committed(left, n)
  <1>0. /\ fs \in Store /\ whole \in WholeType /\ timeouts \in Nat /\ n \in Kept
    BY Now
  <1>1. /\ whole.at \in {"WROTE", "SHORT"} /\ whole' = [whole EXCEPT !.at = "IDLE"]
        /\ UNCHANGED <<conn, version>>
    BY DEF WholeClose
  <1>2. PICK r \in Closings(n) :
            /\ Closed(r)
            /\ may' = [may EXCEPT ![n] = IF r.ok /\ whole.at = "WROTE" THEN {whole.version}
                                         ELSE may[n] \cup {whole.version}]
            /\ spoilt' = IF ~r.ok THEN spoilt
                         ELSE IF r.ok /\ whole.at = "WROTE" THEN spoilt \ {n} ELSE spoilt \cup {n}
            /\ cache' = IF (r.ok /\ whole.at = "WROTE") /\ n = Pad
                        THEN [cache EXCEPT !.storing = 1, !.version = whole.version] ELSE cache
    BY DEF WholeClose
  <1>3. fs' = r.store /\ timeouts' = timeouts + r.late
    BY <1>2 DEF Closed
  <1>4. whole'.at = "IDLE"
    BY <1>0, <1>1 DEF WholeType
  <1>5. \/ r.ok /\ r.late = 0 /\ r.store \in LetGo(u)
        \/ ~r.ok /\ r.late = 0 /\ r.store \in LetGo(Failed(left, n, FALSE))
        \/ ~r.ok /\ r.late = 1 /\ r.store = fs
    BY <1>0, ClosingsIs
  <1> DEFINE m1 == [may EXCEPT ![n] = may[n] \cup {whole.version}]
  <1>11. m1 \in MayType /\ (\A k \in Kept : may[k] \subseteq m1[k])
    <2>1. may \in MayType /\ whole.version \in 0 .. MaxVersion
      BY <1>0, Now DEF WholeType
    <2>2. may[n] \cup {whole.version} \in SUBSET (0 .. MaxVersion)
      BY <1>0, <2>1 DEF MayType
    <2> QED BY <1>0, <2>1, <2>2 DEF MayType
  <1> HIDE DEF m1
  <1>12. StoreOK(fs, conn, whole, version, m1, spoilt, timeouts)
    BY <1>11, MayGrow DEF StoreNow
  <1>6. /\ whole.at = "WROTE" =>
               StoreOK(u, conn, whole', version, [may EXCEPT ![n] = {whole.version}], spoilt \ {n}, timeouts)
        /\ whole.at = "SHORT" => StoreOK(u, conn, whole', version, m1, spoilt \cup {n}, timeouts)
        /\ u.closed[n].version = whole.version
        /\ n /= Pad => u.closed[Pad] = fs.closed[Pad]
        /\ StoreOK(Failed(left, n, FALSE), conn, whole', version, m1, spoilt, timeouts)
        /\ Failed(left, n, FALSE).closed[Pad] = fs.closed[Pad]
        /\ StoreOK(fs, conn, whole', version, m1, spoilt, timeouts + 1)
    <2>1. StoreOK(fs, conn, whole, version, may, spoilt, timeouts)
      BY DEF StoreNow
    <2>2. /\ CloseLeaves(fs, conn, whole, version, may, spoilt, timeouts)
          /\ CloseLeaves(fs, conn, whole, version, m1, spoilt, timeouts)
      BY <1>1, <1>12, <2>1, CloseWhole
    <2>3. whole' = Shut(whole)
      BY <1>1 DEF Shut
    <2> QED BY <2>2, <2>3 DEF CloseLeaves
  <1> HIDE DEF left, u
  <1>7. CASE r.ok /\ r.late = 0 /\ r.store \in LetGo(u)
    <2>1. timeouts' = timeouts
      BY <1>0, <1>3, <1>7
    <2>2. StoreOK(u, conn, whole', version, may', spoilt', timeouts)
      BY <1>1, <1>2, <1>6, <1>7 DEF m1
    <2>3. StoreOK(fs', conn, whole', version, may', spoilt', timeouts) /\ fs'.closed[Pad] = u.closed[Pad]
      <3> DEFINE dw == whole'
                 m2 == may'
                 sp2 == spoilt'
      <3>1. StoreOK(u, conn, dw, version, m2, sp2, timeouts)
        BY <2>2
      <3> HIDE DEF dw, m2, sp2
      <3>2. StoreOK(fs', conn, dw, version, m2, sp2, timeouts) /\ fs'.closed[Pad] = u.closed[Pad]
        BY <1>3, <1>7, <3>1, LetGoKeeps
      <3> QED BY <3>2 DEF dw, m2, sp2
    <2>4. StoreNow'
      BY <1>1, <2>1, <2>3 DEF StoreNow
    <2>5. CASE n = Pad
      <3>1. fs'.closed[Pad].version = whole.version
        BY <1>6, <2>3, <2>5
      <3> QED BY <1>1, <1>2, <1>4, <1>7, <2>4, <2>5, <3>1 DEF PadWritten
    <2>6. CASE n /= Pad
      <3>1. fs'.closed[Pad] = fs.closed[Pad] /\ cache' = cache
        BY <1>2, <1>6, <2>3, <2>6
      <3>2. Pad \in spoilt' <=> Pad \in spoilt
        BY <1>2, <2>6
      <3> QED BY <1>4, <2>4, <3>1, <3>2 DEF PadKept
    <2> QED BY <2>5, <2>6
  <1>8. ASSUME ~r.ok
        PROVE  may' = m1 /\ spoilt' = spoilt /\ cache' = cache
    BY <1>2, <1>8 DEF m1
  <1>9. CASE ~r.ok /\ r.late = 0 /\ r.store \in LetGo(Failed(left, n, FALSE))
    <2>1. timeouts' = timeouts
      BY <1>0, <1>3, <1>9
    <2>2. StoreOK(fs', conn, whole', version, m1, spoilt, timeouts) /\ fs'.closed[Pad] = fs.closed[Pad]
      <3> DEFINE x == Failed(left, n, FALSE)
                 dw == whole'
      <3>1. /\ StoreOK(x, conn, dw, version, m1, spoilt, timeouts)
            /\ x.closed[Pad] = fs.closed[Pad] /\ fs' \in LetGo(x)
        BY <1>3, <1>6, <1>9
      <3> HIDE DEF x, dw
      <3>2. StoreOK(fs', conn, dw, version, m1, spoilt, timeouts) /\ fs'.closed[Pad] = fs.closed[Pad]
        BY <3>1, LetGoKeeps
      <3> QED BY <3>2 DEF dw
    <2> QED BY <1>1, <1>4, <1>8, <1>9, <2>1, <2>2 DEF StoreNow, PadKept
  <1>10. CASE ~r.ok /\ r.late = 1 /\ r.store = fs
    BY <1>1, <1>3, <1>4, <1>6, <1>8, <1>10 DEF StoreNow, PadKept
  <1> QED BY <1>5, <1>7, <1>9, <1>10

LEMMA PowerCutStep ==
    ASSUME StoreNow, PowerCut
    PROVE  StoreNow'
  <1>0. /\ fs \in Store /\ conn \in ConnType /\ version \in 0 .. MaxVersion
        /\ may \in MayType /\ spoilt \subseteq Kept
    BY Now
  <1>1. StoreOK(fs, conn, whole, version, may, spoilt, timeouts)
    BY DEF StoreNow
  <1>2. /\ conn' = [c \in Conns |-> Idle] /\ whole' = [at |-> "IDLE", name |-> Dest, version |-> 0]
        /\ spoilt' = {n \in spoilt : fs'.closed[n] = fs.closed[n]}
        /\ timeouts' = 0 /\ version' = version
    BY DEF PowerCut
  <1>3. /\ conn' \in ConnType /\ \A c \in Conns : conn'[c].at = "IDLE"
        /\ whole' \in WholeType /\ whole'.at = "IDLE"
    BY <1>2, StoreConstants, KeptIs DEF ConnType, WholeType, Idle
  <1> DEFINE m1 == [n \in Kept |-> may[n] \cup Tried(n)]
             more(c) == [n \in Kept |-> may[n] \cup Tried(n) \cup (IF n = Dest THEN {conn[c].version} ELSE {})]
  <1>4. \/ fs' = Reset(fs) /\ may' = m1
        \/ \E c \in Conns :
               /\ conn[c].at = "RENAME"
               /\ \E r \in RenameReaches(fs, Part, Dest) : fs' = Reset(r.store) /\ may' = more(c)
    BY DEF PowerCut
  <1>8. m1 \in MayType /\ \A n \in Kept : may[n] \subseteq m1[n]
    <2>1. \A n \in Kept : may[n] \subseteq 0 .. MaxVersion
      BY <1>0 DEF MayType
    <2>2. \A n \in Kept : Tried(n) \subseteq 0 .. MaxVersion
      BY Now DEF Tried, WholeType
    <2> QED BY <2>1, <2>2 DEF MayType
  <1>9. \A c \in Conns : \A n \in Kept :
            more(c)[n] = IF n = Dest THEN m1[n] \cup {conn[c].version} ELSE m1[n]
    OBVIOUS
  <1>10. \A c \in Conns : more(c) = [m1 EXCEPT ![Dest] = m1[Dest] \cup {conn[c].version}]
    BY KeptIs
  <1> HIDE DEF m1, more
  <1>11. StoreOK(fs, conn, whole, version, m1, spoilt, timeouts)
    BY <1>1, <1>8, MayGrow
  <1>5. ASSUME NEW s, NEW cn, NEW m2, NEW sp2, StoreOK(s, cn, whole, version, m2, sp2, timeouts)
        PROVE  StoreOK(Reset(s), conn', whole', version, m2, sp2, 0) /\ Reset(s).closed = s.closed
    <2> DEFINE dn == conn'
               dw == whole'
    <2>1. dn \in ConnType /\ (\A c \in Conns : dn[c].at = "IDLE") /\ dw \in WholeType /\ dw.at = "IDLE"
      BY <1>3
    <2> HIDE DEF dn, dw
    <2>2. StoreOK(Reset(s), dn, dw, version, m2, sp2, 0) /\ Reset(s).closed = s.closed
      BY <1>5, <2>1, ResetKeeps
    <2> QED BY <2>2 DEF dn, dw
  <1>6. CASE fs' = Reset(fs) /\ may' = m1
    <2>1. StoreOK(fs', conn', whole', version, m1, spoilt, 0) /\ fs'.closed = fs.closed
      BY <1>5, <1>6, <1>11
    <2>2. spoilt' = spoilt
      BY <1>2, <2>1
    <2> QED BY <1>2, <1>6, <2>1, <2>2 DEF StoreNow
  <1>7. CASE \E c \in Conns :
               /\ conn[c].at = "RENAME"
               /\ \E r \in RenameReaches(fs, Part, Dest) : fs' = Reset(r.store) /\ may' = more(c)
    <2>1. PICK c \in Conns, r \in RenameReaches(fs, Part, Dest) :
              /\ conn[c].at = "RENAME" /\ fs' = Reset(r.store)
              /\ may' = [m1 EXCEPT ![Dest] = m1[Dest] \cup {conn[c].version}]
      BY <1>7, <1>10
    <2>2. PICK q \in Copy(fs, Part, Dest) :
              \/ r.store = q.store
              \/ q.ok /\ CanDelete(q.store, Part) /\ r.store = Without(q.store, {Part})
      BY RenameReachesIs
    <2> DEFINE dn == Moved(conn, c, "REMOVE")
               m2 == may'
               sp2 == IF q.ok THEN spoilt \ {Dest} ELSE spoilt
               u == r.store
    <2>3. /\ conn[c].version \in 1 .. version /\ conn[c].version \in 0 .. MaxVersion
          /\ fs.closed[Dest].version /= conn[c].version
      <3>1. conn[c].version \in 1 .. version /\ \A n \in Kept : fs.closed[n].version /= conn[c].version
        BY <2>1, Now DEF VersionsInv
      <3>2. conn[c].version \in 0 .. MaxVersion
        BY <1>0, <3>1, StoreConstants
      <3> QED BY <3>1, <3>2, KeptIs
    <2>4. Admits(m1, m2, conn[c].version, q.ok)
      <3>1. m1[Dest] \subseteq 0 .. MaxVersion
        BY <1>8, KeptIs DEF MayType
      <3>2. m2[Dest] = m1[Dest] \cup {conn[c].version} /\ m2[Pad] = m1[Pad]
        BY <1>8, <2>1, KeptIs, NamesIs DEF MayType
      <3>3. m2 \in MayType
        BY <1>8, <2>1, <2>3, <3>1 DEF MayType
      <3> HIDE DEF m2
      <3> QED BY <3>2, <3>3 DEF Admits
    <2>5. \A d \in Conns : dn[d].at /= "RENAME"
      <3>1. \A d \in Conns : d /= c => conn[d].at = "IDLE"
        BY <2>1, Now DEF HandlesInv
      <3> QED BY <1>0, <3>1 DEF ConnType, Moved
    <2> HIDE DEF m2
    <2>6. CopyLeaves(q, fs, conn, whole, version, m2, spoilt, timeouts, c, "REMOVE")
      <3>1. /\ StoreOK(fs, conn, whole, version, m1, spoilt, timeouts) /\ conn[c].at = "RENAME"
            /\ c \in Conns /\ "REMOVE" \in {"IDLE", "REMOVE"} /\ q \in Copy(fs, Part, Dest)
        BY <1>11, <2>1
      <3> QED BY <2>4, <3>1, CopyKeeps
    <2>7. /\ StoreOK(q.store, dn, whole, version, m2, sp2, timeouts)
          /\ q.store.closed[Pad] = fs.closed[Pad]
          /\ q.ok => q.store.closed[Dest].version = conn[c].version
          /\ ~q.ok => q.store.closed[Dest] = fs.closed[Dest]
      BY <2>6 DEF CopyLeaves
    <2> HIDE DEF dn, sp2, u
    <2>8. /\ StoreOK(u, dn, whole, version, m2, sp2, timeouts)
          /\ u.closed[Pad] = q.store.closed[Pad] /\ u.closed[Dest] = q.store.closed[Dest]
      <3> DEFINE x == q.store
      <3>1. u = x \/ (CanDelete(x, Part) /\ u = Without(x, {Part}))
        BY <2>2 DEF u
      <3>2. StoreOK(x, dn, whole, version, m2, sp2, timeouts)
        BY <2>7
      <3> HIDE DEF x
      <3>3. CanDelete(x, Part) /\ u = Without(x, {Part}) =>
                /\ StoreOK(u, dn, whole, version, m2, sp2, timeouts)
                /\ u.closed[Pad] = x.closed[Pad] /\ u.closed[Dest] = x.closed[Dest]
        BY <2>5, <3>2, DropPart
      <3> QED BY <3>1, <3>2, <3>3 DEF x
    <2>9. fs' = Reset(u)
      BY <2>1 DEF u
    <2>10. StoreOK(fs', conn', whole', version, m2, sp2, 0) /\ fs'.closed = u.closed
      BY <1>5, <2>8, <2>9
    <2>11. spoilt' = sp2
      <3>1. fs'.closed[Pad] = fs.closed[Pad]
        BY <2>7, <2>8, <2>10
      <3>2. fs'.closed[Dest] = fs.closed[Dest] <=> ~q.ok
        BY <2>3, <2>7, <2>8, <2>10
      <3>3. \A n \in spoilt : n = Dest \/ n = Pad
        BY <1>0, KeptIs
      <3> QED BY <1>2, <3>1, <3>2, <3>3, NamesIs DEF sp2
    <2> QED BY <1>2, <2>10, <2>11 DEF StoreNow, m2
  <1> QED BY <1>4, <1>6, <1>7

-----------------------------------------------------------------------------
(* The copies never closed *)

LEMMA FewerChain ==
    ASSUME NEW s, NEW t, NEW u, Fewer(u, t), Fewer(t, s)
    PROVE  Fewer(u, s)
  BY DEF Fewer

LEMMA WithoutFewer ==
    ASSUME NEW s \in Store, NEW gone, NEW t, t = Without(s, gone)
    PROVE  t \in Store /\ Fewer(t, s)
  BY WithoutIs DEF Fewer

LEMMA LetGoFewer ==
    ASSUME NEW s \in Store, NEW t \in LetGo(s)
    PROVE  t \in Store /\ Fewer(t, s)
  <1> DEFINE gone == {f.name : f \in {g \in s.failed : g.remove}}
             m == Mounted(s)
             u == Without(m, gone)
  <1>1. CASE t = s
    BY <1>1 DEF Fewer
  <1>2. CASE t = [s EXCEPT !.up = FALSE]
    BY <1>2 DEF Store, Fewer
  <1>3. CASE t = [u EXCEPT !.failed = {}, !.nfailed = 0]
    <2>1. m \in Store /\ Fewer(m, s)
      BY MountedIs
    <2> HIDE DEF m, gone
    <2>2. u \in Store /\ Fewer(u, m)
      BY <2>1, WithoutFewer
    <2>3. Fewer(u, s)
      BY <2>1, <2>2, FewerChain
    <2> HIDE DEF u
    <2>4. t \in Store /\ t.writing = u.writing
      BY <1>3, <2>2 DEF Store
    <2> QED BY <2>3, <2>4 DEF Fewer
  <1> QED BY <1>1, <1>2, <1>3 DEF LetGo

LEMMA ResetFewer ==
    ASSUME NEW s \in Store, NEW t, t = Reset(s)
    PROVE  Fewer(t, s)
  <1> DEFINE m == Mounted(s)
  <1>1. m \in Store /\ Fewer(m, s) /\ t = [m EXCEPT !.held = 0, !.failed = {}, !.nfailed = 0]
    BY MountedIs DEF Reset
  <1> HIDE DEF m
  <1>2. t.writing = m.writing
    BY <1>1 DEF Store
  <1> QED BY <1>1, <1>2 DEF Fewer

\* A close leaves no copy that was not there, and none of its own if it is done.
LEMMA ClosingFewer ==
    ASSUME StoreNow, NEW n \in Names, NEW r \in Closings(n), Up(conn) /= {} \/ whole.at /= "IDLE"
    PROVE  Fewer(r.store, fs) /\ (r.ok => r.store.writing[n].is = "NONE")
  <1> DEFINE left == OneLess(fs)
             done == Committed(left, n)
             failed == Failed(left, n, FALSE)
  <1>1. fs \in Store /\ fs.held - 1 \in Nat
    BY Now, OneHeld DEF StoreNow
  <1>2. left \in Store /\ left.writing = fs.writing
    BY <1>1, LeftIs DEF OneLess
  <1>3. \/ r.ok /\ r.store \in LetGo(done)
        \/ ~r.ok /\ r.store \in LetGo(failed)
        \/ ~r.ok /\ r.store = fs
    BY <1>1, ClosingsIs
  <1> HIDE DEF left
  <1>4. /\ done \in Store /\ done.writing[n].is = "NONE"
        /\ \A k \in Names : k /= n => done.writing[k] = left.writing[k]
    BY <1>2, CommittedIs
  <1>5. failed \in Store /\ failed.writing = left.writing
    BY <1>2, FailedIs
  <1> HIDE DEF done, failed
  <1>6. Fewer(done, fs) /\ Fewer(failed, fs) /\ Fewer(fs, fs)
    BY <1>2, <1>4, <1>5 DEF Fewer
  <1>7. CASE r.ok /\ r.store \in LetGo(done)
    <2>1. Fewer(r.store, done)
      BY <1>4, <1>7, LetGoFewer
    <2> QED BY <1>4, <1>6, <1>7, <2>1, FewerChain DEF Fewer
  <1>8. CASE ~r.ok /\ r.store \in LetGo(failed)
    <2>1. Fewer(r.store, failed)
      BY <1>5, <1>8, LetGoFewer
    <2> QED BY <1>6, <1>8, <2>1, FewerChain
  <1> QED BY <1>3, <1>6, <1>7, <1>8

LEMMA RemoveFewer ==
    ASSUME NEW s \in Store, NEW n \in Names, NEW r \in Remove(s, n) \cup {Result(s, FALSE)}
    PROVE  Fewer(r.store, s)
  <1> DEFINE marked == {IF f.name = n THEN [f EXCEPT !.remove = TRUE] ELSE f : f \in s.failed}
             u == [s EXCEPT !.failed = marked]
  <1>1. marked \in SUBSET [name: Names, remove: BOOLEAN]
    <2>1. s.failed \subseteq [name: Names, remove: BOOLEAN]
      BY StoreFields
    <2> QED BY <2>1
  <1> HIDE DEF marked
  <1>2. u \in Store /\ u.writing = s.writing
    BY <1>1 DEF Store
  <1>3. \/ \E t \in LetGo(u) : r = Result(t, TRUE)
        \/ r = Result(Without(s, {n}), TRUE)
        \/ r = Result(s, FALSE)
    BY DEF Remove, marked
  <1> HIDE DEF u
  <1>4. r.store \in LetGo(u) \/ r.store = Without(s, {n}) \/ r.store = s
    BY <1>3 DEF Result
  <1>5. r.store \in LetGo(u) => Fewer(r.store, s)
    BY <1>2, LetGoFewer DEF Fewer
  <1>6. Fewer(s, s)
    BY DEF Fewer
  <1> QED BY <1>4, <1>5, <1>6, WithoutFewer

\* A rename, however far it comes: its copy of the destination is closed, or the
\* one there was, or of the upload's content.
Renamed(x) ==
    /\ \A k \in Kept : k /= Dest /\ x.writing[k].is /= "NONE" =>
           fs.writing[k].is /= "NONE" /\ x.writing[k].got.version = fs.writing[k].got.version
    /\ x.writing[Dest].is /= "NONE" =>
           \/ fs.writing[Dest].is /= "NONE" /\ x.writing[Dest].got.version = fs.writing[Dest].got.version
           \/ x.writing[Dest].got.version = fs.closed[Part].version

LEMMA RenamedFewer ==
    ASSUME NEW x, NEW y, Renamed(x), Fewer(y, x)
    PROVE  Renamed(y)
  BY NamesIs, KeptIs DEF Renamed, Fewer

LEMMA CopyRenamed ==
    ASSUME fs \in Store, NEW q \in Copy(fs, Part, Dest)
    PROVE  q.store \in Store /\ Renamed(q.store) /\ (q.ok => q.store.writing[Dest].is = "NONE")
  <1>1. Dest \in Names /\ \A k \in Kept : k \in Names
    BY NamesIs, KeptIs
  <1> QED BY <1>1, CopyIs DEF Renamed

\* The copies are of contents tried still, if what may be tried is.
LEMMA FewerTried ==
    ASSUME CopiesTried, Fewer(fs', fs), \A n \in Kept : may[n] \cup Tried(n) \subseteq may'[n] \cup Tried(n)'
    PROVE  CopiesTried'
  BY NamesIs, KeptIs DEF CopiesTried, Fewer

LEMMA RenamedTried ==
    ASSUME CopiesTried, Renamed(fs'), NEW v, fs.closed[Part].version = v,
           \A n \in Kept : n /= Dest => may[n] \cup Tried(n) \subseteq may'[n] \cup Tried(n)',
           fs'.writing[Dest].is /= "NONE" =>
               may[Dest] \cup Tried(Dest) \cup {v} \subseteq may'[Dest] \cup Tried(Dest)'
    PROVE  CopiesTried'
  BY KeptIs DEF CopiesTried, Renamed

LEMMA TriedSame ==
    ASSUME whole' = whole
    PROVE  \A n : Tried(n)' = Tried(n)
  BY DEF Tried

LEMMA UploadTried ==
    ASSUME StoreNow, CopiesTried, NEW c \in Conns, Upload(c)
    PROVE  CopiesTried'
  <1>0. fs \in Store /\ version \in 0 .. MaxVersion /\ may \in MayType
    BY Now
  <1>1. whole' = whole /\ \A n : Tried(n)' = Tried(n)
    BY TriedSame DEF Upload, UploadOpen, UploadBody, UploadClose, UploadRename, UploadDies, UploadRemove
  <1>2. CASE UploadOpen(c) \/ UploadBody(c)
    <2>1. may' = may
      BY <1>2 DEF UploadOpen, UploadBody, history
    <2>2. \A k \in Kept : fs'.writing[k] = fs.writing[k]
      <3>1. CASE UploadOpen(c)
        <4>1. version' \in 0 .. MaxVersion
          BY <1>0, <3>1, StoreConstants DEF UploadOpen, NextVersion
        <4>2. Bytes(version', FALSE) \in Content
          BY <4>1 DEF Bytes, Content
        <4>3. fs' = OpenWrite(fs, Part, Bytes(version', FALSE))
          BY <3>1 DEF UploadOpen
        <4> DEFINE got == Bytes(version', FALSE)
                   t == fs'
        <4> HIDE DEF got
        <4>4. got \in Content /\ t = OpenWrite(fs, Part, got)
          BY <4>2, <4>3 DEF got
        <4> HIDE DEF t
        <4>5. \A k \in Names : k /= Part => t.writing[k] = fs.writing[k]
          BY <1>0, <4>4, OpenWriteIs, NamesIs
        <4> QED BY <4>5, NamesIs, KeptIs DEF t
      <3>2. CASE UploadBody(c)
        <4> DEFINE u == [fs EXCEPT !.writing[Part].got.whole = TRUE]
        <4>1. fs' = u \/ fs' = fs
          BY <3>2 DEF UploadBody
        <4>2. \A k \in Names : k /= Part => u.writing[k] = fs.writing[k]
          BY <1>0, WrittenIs, NamesIs
        <4> HIDE DEF u
        <4> QED BY <4>1, <4>2, NamesIs, KeptIs
      <3> QED BY <1>2, <3>1, <3>2
    <2> QED BY <1>1, <2>1, <2>2 DEF CopiesTried
  <1>3. CASE UploadClose(c) \/ UploadDies(c)
    <2>1. may' = may /\ (\E r \in Closings(Part) : Closed(r)) /\ conn[c].at \in {"BODY", "WHOLE", "SHORT"}
      BY <1>3 DEF UploadClose, UploadDies, history
    <2>2. PICK r \in Closings(Part) : fs' = r.store
      BY <2>1 DEF Closed
    <2>3. Up(conn) /= {}
      BY <2>1 DEF Up
    <2>4. Fewer(fs', fs)
      BY <2>2, <2>3, ClosingFewer, NamesIs
    <2> QED BY <1>1, <2>1, <2>4, FewerTried
  <1>4. CASE UploadRename(c)
    <2>1. PICK r \in Rename(fs, Part, Dest) \cup {Result(fs, FALSE)} :
              /\ fs' = r.store /\ conn[c].at = "RENAME"
              /\ may' = [may EXCEPT ![Dest] = IF r.ok THEN {conn[c].version} ELSE may[Dest] \cup {conn[c].version}]
      BY <1>4 DEF UploadRename
    <2>2. fs.closed[Part].version = conn[c].version
      <3>1. fs.closed[Part] = Bytes(conn[c].version, TRUE)
        BY <2>1, Now DEF RenameInv
      <3> QED BY <3>1 DEF Bytes
    <2>3. PICK q \in Copy(fs, Part, Dest) :
              \/ q.ok /\ CanDelete(q.store, Part) /\ r.ok /\ r.store \in LetGo(Without(q.store, {Part}))
              \/ ~r.ok /\ (r.store = q.store \/ r.store \in LetGo(q.store))
      BY RenameIs
    <2>4. q.store \in Store /\ Renamed(q.store) /\ (q.ok => q.store.writing[Dest].is = "NONE")
      BY <1>0, CopyRenamed
    <2> DEFINE x == q.store
               u == Without(x, {Part})
    <2>5. u \in Store /\ Fewer(u, x)
      BY <2>4, WithoutFewer
    <2>6. Fewer(fs', x)
      <3>1. CASE r.ok
        <4>1. fs' \in LetGo(u)
          BY <2>1, <2>3, <3>1
        <4> DEFINE t == fs'
        <4> HIDE DEF u, x, t
        <4>2. Fewer(t, u)
          BY <2>5, <4>1, LetGoFewer DEF t
        <4>3. Fewer(t, x)
          BY <2>5, <4>2, FewerChain
        <4> QED BY <4>3 DEF t
      <3>2. CASE ~r.ok
        <4>1. fs' = x \/ fs' \in LetGo(x)
          BY <2>1, <2>3, <3>2
        <4> DEFINE t == fs'
        <4> HIDE DEF x, t
        <4>2. Fewer(x, x)
          BY DEF Fewer
        <4>3. t = x \/ Fewer(t, x)
          BY <2>4, <4>1, LetGoFewer DEF t, x
        <4> QED BY <4>2, <4>3 DEF t
      <3> QED BY <3>1, <3>2
    <2>7. Renamed(fs')
      <3> DEFINE t == fs'
      <3> HIDE DEF x, t
      <3>1. Renamed(t)
        BY <2>4, <2>6, RenamedFewer DEF t, x
      <3> QED BY <3>1 DEF t
    <2>8. r.ok => fs'.writing[Dest].is = "NONE"
      BY <2>3, <2>4, <2>6, NamesIs DEF Fewer
    <2>9. /\ may'[Pad] = may[Pad]
          /\ ~r.ok => may'[Dest] = may[Dest] \cup {conn[c].version}
      BY <1>0, <2>1, NamesIs, KeptIs DEF MayType
    <2> HIDE DEF x, u
    <2> QED BY <1>1, <2>2, <2>7, <2>8, <2>9, KeptIs, RenamedTried
  <1>5. CASE UploadRemove(c)
    <2>1. may' = may
      BY <1>5 DEF UploadRemove, history
    <2>2. PICK r \in Remove(fs, Part) \cup {Result(fs, FALSE)} : fs' = r.store
      BY <1>5 DEF UploadRemove
    <2>3. Fewer(fs', fs)
      BY <1>0, <2>2, RemoveFewer, NamesIs
    <2> QED BY <1>1, <2>1, <2>3, FewerTried
  <1> QED BY <1>2, <1>3, <1>4, <1>5 DEF Upload

LEMMA ReadersTried ==
    ASSUME StoreNow, CopiesTried, NEW r \in Readers, ReadOpen(r) \/ ReadClose(r) \/ ReadReopenFails(r)
    PROVE  CopiesTried'
  <1>0. fs \in Store /\ IsFiniteSet(Open(fs)) /\ StoreOK(fs, conn, whole, version, may, spoilt, timeouts)
    BY Now DEF HandlesInv, StoreNow
  <1>1. may' = may /\ whole' = whole /\ \A n : Tried(n)' = Tried(n)
    BY TriedSame DEF ReadOpen, ReadClose, ReadReopenFails, history
  <1>2. CASE ReadOpen(r)
    <2>1. PICK n \in Names : fs' = [fs EXCEPT !.reading[r] = n, !.held = fs.held + 1]
      BY <1>2 DEF ReadOpen, OpenRead
    <2>2. fs'.writing = fs.writing
      BY <1>0, <2>1 DEF Store
    <2> QED BY <1>1, <2>2 DEF CopiesTried
  <1>3. CASE ReadClose(r) \/ ReadReopenFails(r)
    <2> DEFINE reading == [fs.reading EXCEPT ![r] = NoName]
               k == fs.held - 1
               u == [fs EXCEPT !.reading = reading, !.held = k]
    <2>1. fs.reading[r] /= NoName /\ (fs' = u \/ fs' \in LetGo(u))
      BY <1>3 DEF ReadClose, ReadReopenFails, CloseRead, Reopened
    <2>2. reading \in [Readers -> Names \cup {NoName}]
      BY <1>0, StoreFields
    <2>3. k \in Nat
      BY <1>0, <2>1, OneHeld DEF Open
    <2> HIDE DEF reading, k
    <2>4. u \in Store /\ u.writing = fs.writing
      BY <1>0, <2>2, <2>3 DEF Store
    <2> DEFINE t == fs'
    <2>5. t = u \/ t \in LetGo(u)
      BY <2>1
    <2> HIDE DEF u, t
    <2>6. Fewer(t, fs)
      <3>1. t \in LetGo(u) => Fewer(t, u)
        BY <2>4, LetGoFewer
      <3> QED BY <2>4, <2>5, <3>1 DEF Fewer
    <2>7. Fewer(fs', fs)
      BY <2>6 DEF t
    <2> QED BY <1>1, <2>7, FewerTried
  <1> QED BY <1>2, <1>3

LEMMA DeleteTried ==
    ASSUME StoreNow, CopiesTried, DeleteFile
    PROVE  CopiesTried'
  <1>0. fs \in Store /\ may \in MayType
    BY Now
  <1>1. whole' = whole /\ \A n : Tried(n)' = Tried(n)
    BY TriedSame DEF DeleteFile
  <1>2. PICK r \in Remove(fs, Dest) :
            /\ fs' = r.store
            /\ may' = [may EXCEPT ![Dest] = IF Gone(fs', Dest) THEN {0} ELSE may[Dest] \cup {0}]
    BY DEF DeleteFile
  <1>3. Fewer(fs', fs)
    BY <1>0, <1>2, RemoveFewer, NamesIs
  <1>4. may'[Pad] = may[Pad] /\ (~Gone(fs', Dest) => may'[Dest] = may[Dest] \cup {0})
    BY <1>0, <1>2, KeptIs, NamesIs DEF MayType
  <1>5. Gone(fs', Dest) => fs'.writing[Dest].is = "NONE"
    BY DEF Gone
  <1>6. \A n \in Kept : fs'.writing[n].is /= "NONE" =>
            fs.writing[n].is /= "NONE" /\ fs'.writing[n].got.version = fs.writing[n].got.version
            /\ may[n] \subseteq may'[n]
    BY <1>3, <1>4, <1>5, KeptIs, NamesIs DEF Fewer
  <1> QED BY <1>1, <1>6 DEF CopiesTried

LEMMA CleanTried ==
    ASSUME StoreNow, CopiesTried, Clean
    PROVE  CopiesTried'
  <1>1. may' = may /\ whole' = whole /\ \A n : Tried(n)' = Tried(n)
    BY TriedSame DEF Clean, history
  <1>2. Fewer(fs', fs)
    BY Now, LetGoFewer DEF Clean
  <1> QED BY <1>1, <1>2, FewerTried

LEMMA WholeTried ==
    ASSUME StoreNow, CopiesTried, WholeOpen \/ WholeWrite
    PROVE  CopiesTried'
  <1>0. fs \in Store /\ whole \in WholeType /\ version \in 0 .. MaxVersion /\ may' = may
    BY Now DEF WholeOpen, WholeWrite, history
  <1>1. CASE WholeOpen
    <2>1. PICK n \in Kept :
              /\ version < MaxVersion /\ version' = version + 1
              /\ fs' = OpenWrite(fs, n, Bytes(version', FALSE))
              /\ whole' = [at |-> "WRITE", name |-> n, version |-> version']
      BY <1>1 DEF WholeOpen, NextVersion
    <2>2. version' \in 0 .. MaxVersion /\ n \in Names
      BY <1>0, <2>1, StoreConstants, NamesIs, KeptIs
    <2> DEFINE got == Bytes(version', FALSE)
               t == fs'
    <2>3. got \in Content /\ got.version = version' /\ t = OpenWrite(fs, n, got)
      BY <2>1, <2>2 DEF Bytes, Content
    <2> HIDE DEF got, t
    <2>4. t.writing[n].got = got /\ \A k \in Names : k /= n => t.writing[k] = fs.writing[k]
      BY <1>0, <2>2, <2>3, OpenWriteIs
    <2>5. fs'.writing[n].got.version = version' /\ \A k \in Kept : k /= n => fs'.writing[k] = fs.writing[k]
      BY <2>3, <2>4, NamesIs, KeptIs DEF t
    <2>6. Tried(n)' = {version'}
      BY <2>1 DEF Tried
    <2>7. \A k \in Kept : Tried(k) = {}
      BY <1>1 DEF WholeOpen, Tried
    <2> QED BY <1>0, <2>5, <2>6, <2>7 DEF CopiesTried
  <1>2. CASE WholeWrite
    <2> DEFINE n == whole.name
               u == [fs EXCEPT !.writing[n].got.whole = TRUE]
    <2>1. /\ whole.at = "WRITE" /\ (fs' = u \/ fs' = fs)
          /\ whole' = [whole EXCEPT !.at = "WROTE"] \/ whole' = [whole EXCEPT !.at = "SHORT"]
      BY <1>2 DEF WholeWrite
    <2>2. \A k \in Kept : Tried(k)' = Tried(k)
      BY <1>0, <2>1 DEF Tried, WholeType
    <2>3. n \in Names
      BY Now
    <2> HIDE DEF n
    <2>4. /\ u.writing[n].is = fs.writing[n].is /\ u.writing[n].got.version = fs.writing[n].got.version
          /\ \A k \in Names : k /= n => u.writing[k] = fs.writing[k]
      BY <1>0, <2>3, WrittenIs
    <2> HIDE DEF u
    <2>5. \A k \in Kept : fs'.writing[k].is = fs.writing[k].is /\ fs'.writing[k].got.version = fs.writing[k].got.version
      BY <2>1, <2>4, NamesIs, KeptIs
    <2> QED BY <1>0, <2>2, <2>5 DEF CopiesTried
  <1> QED BY <1>1, <1>2

LEMMA WholeCloseTried ==
    ASSUME StoreNow, CopiesTried, WholeClose
    PROVE  CopiesTried'
  <1> DEFINE n == whole.name
  <1>0. whole \in WholeType /\ may \in MayType /\ n \in Kept /\ n \in Names
    BY Now
  <1>1. whole.at /= "IDLE" /\ whole' = [whole EXCEPT !.at = "IDLE"]
    BY DEF WholeClose
  <1>2. PICK r \in Closings(n) :
            /\ Closed(r)
            /\ may' = [may EXCEPT ![n] = IF r.ok /\ whole.at = "WROTE" THEN {whole.version}
                                         ELSE may[n] \cup {whole.version}]
    BY DEF WholeClose
  <1>3. Fewer(fs', fs) /\ (r.ok => fs'.writing[n].is = "NONE")
    BY <1>0, <1>1, <1>2, ClosingFewer DEF Closed
  <1>4. \A k \in Kept : Tried(k) = (IF k = n THEN {whole.version} ELSE {})
    BY <1>1 DEF Tried
  <1>5. \A k \in Kept : k /= n => may'[k] = may[k]
    BY <1>0, <1>2 DEF MayType
  <1>6. ~r.ok => may'[n] = may[n] \cup {whole.version}
    BY <1>0, <1>2 DEF MayType
  <1>7. ASSUME NEW k \in Kept, fs'.writing[k].is /= "NONE"
        PROVE  fs'.writing[k].got.version \in may'[k]
    <2>1. /\ fs.writing[k].is /= "NONE" /\ fs'.writing[k].got.version = fs.writing[k].got.version
      BY <1>3, <1>7, NamesIs, KeptIs DEF Fewer
    <2>2. fs.writing[k].got.version \in may[k] \cup Tried(k)
      BY <2>1 DEF CopiesTried
    <2>3. CASE k = n
      BY <1>3, <1>4, <1>6, <1>7, <2>1, <2>2, <2>3
    <2>4. CASE k /= n
      BY <1>4, <1>5, <2>1, <2>2, <2>4
    <2> QED BY <2>3, <2>4
  <1> QED BY <1>7 DEF CopiesTried

LEMMA PowerCutTried ==
    ASSUME StoreNow, CopiesTried, PowerCut
    PROVE  CopiesTried'
  <1>0. fs \in Store
    BY Now
  <1>1. \/ /\ fs' = Reset(fs)
           /\ may' = [n \in Kept |-> may[n] \cup Tried(n)]
        \/ \E c \in Conns :
               /\ conn[c].at = "RENAME"
               /\ \E r \in RenameReaches(fs, Part, Dest) :
                      /\ fs' = Reset(r.store)
                      /\ may' = [n \in Kept |-> may[n] \cup Tried(n) \cup (IF n = Dest THEN {conn[c].version} ELSE {})]
    BY DEF PowerCut
  <1>2. CASE /\ fs' = Reset(fs)
             /\ may' = [n \in Kept |-> may[n] \cup Tried(n)]
    <2>1. Fewer(fs', fs)
      BY <1>0, <1>2, ResetFewer
    <2>2. \A n \in Kept : may'[n] = may[n] \cup Tried(n)
      BY <1>2
    <2> QED BY <2>1, <2>2, FewerTried
  <1>3. ASSUME NEW c \in Conns, conn[c].at = "RENAME", NEW r \in RenameReaches(fs, Part, Dest), fs' = Reset(r.store),
               may' = [n \in Kept |-> may[n] \cup Tried(n) \cup (IF n = Dest THEN {conn[c].version} ELSE {})]
        PROVE  CopiesTried'
    <2>1. fs.closed[Part].version = conn[c].version
      <3>1. fs.closed[Part] = Bytes(conn[c].version, TRUE)
        BY <1>3, Now DEF RenameInv
      <3> QED BY <3>1 DEF Bytes
    <2>2. PICK q \in Copy(fs, Part, Dest) :
              \/ r.store = q.store
              \/ q.ok /\ CanDelete(q.store, Part) /\ r.store = Without(q.store, {Part})
      BY RenameReachesIs
    <2> DEFINE x == q.store
               u == r.store
               t == fs'
    <2>3. x \in Store /\ Renamed(x)
      BY <1>0, CopyRenamed
    <2>4. (u = x \/ u = Without(x, {Part})) /\ t = Reset(u)
      BY <1>3, <2>2
    <2> HIDE DEF x, u, t
    <2>5. u \in Store /\ Fewer(u, x)
      <3>1. Fewer(x, x)
        BY DEF Fewer
      <3>2. u = Without(x, {Part}) => u \in Store /\ Fewer(u, x)
        BY <2>3, WithoutFewer
      <3> QED BY <2>3, <2>4, <3>1, <3>2
    <2>6. Fewer(t, x)
      BY <2>4, <2>5, ResetFewer, FewerChain
    <2>7. Renamed(t)
      BY <2>3, <2>6, RenamedFewer
    <2>8. Renamed(fs')
      BY <2>7 DEF t
    <2>9. \A n \in Kept : may'[n] = may[n] \cup Tried(n) \cup (IF n = Dest THEN {conn[c].version} ELSE {})
      BY <1>3
    <2> QED BY <2>1, <2>8, <2>9, KeptIs, RenamedTried
  <1> QED BY <1>1, <1>2, <1>3

LEMMA TriedStep ==
    ASSUME StoreNow, CopiesTried, [Next]_vars
    PROVE  CopiesTried'
  <1>1. CASE UNCHANGED vars \/ Cached \/ FlightReads
    <2>1. UNCHANGED <<fs, whole, may>>
      BY <1>1 DEF vars, history, Cached, CacheBegins, CacheStores, CacheEnds, FlightReads, TryBegins, TryTakes,
                  TryEnds, ReadsAgain
    <2> QED BY <2>1, TriedSame DEF CopiesTried
  <1> QED BY <1>1, UploadTried, ReadersTried, DeleteTried, CleanTried, WholeTried, WholeCloseTried, PowerCutTried DEF Next

-----------------------------------------------------------------------------
(* The cached copy and its reader *)

CacheType == [seq: Nat, storing: 0 .. 5, version: 0 .. MaxVersion, piece: [Pieces -> 0 .. Torn]]
FlightType == [try: 0 .. Tries, seq: Nat, took: 0 .. 4, piece: [Pieces -> 0 .. Torn], ok: BOOLEAN]
Copies == cache \in CacheType /\ flight \in FlightType /\ CacheInv /\ FlightInv

CacheOf(seq, storing, v, piece) == [seq |-> seq, storing |-> storing, version |-> v, piece |-> piece]

LEMMA CacheIs ==
    ASSUME NEW seq \in Nat, NEW storing \in 0 .. 5, NEW v \in 0 .. MaxVersion, NEW piece \in [Pieces -> 0 .. Torn]
    PROVE  LET c == CacheOf(seq, storing, v, piece)
           IN  c \in CacheType /\ c.seq = seq /\ c.storing = storing /\ c.version = v /\ c.piece = piece
  BY DEF CacheOf, CacheType

FlightOf(try, seq, took, piece, ok) == [try |-> try, seq |-> seq, took |-> took, piece |-> piece, ok |-> ok]

LEMMA CopiesKept ==
    ASSUME Copies, PadKept, UNCHANGED <<cache, flight>>,
           whole'.at /= "IDLE" /\ whole'.name = Pad => cache.storing = 0
    PROVE  Copies'
  <1>1. CacheInv'
    BY DEF Copies, CacheInv, PadKept
  <1>2. FlightInv'
    BY DEF Copies, FlightInv
  <1> QED BY <1>1, <1>2 DEF Copies

\* The pad marker's file was written: its copy waits to be stored, or it is spoilt.
LEMMA CopiesWritten ==
    ASSUME StoreNow, Copies, PadWritten, whole.at /= "IDLE", whole'.at = "IDLE", flight' = flight
    PROVE  Copies'
  <1>1. whole.version \in 0 .. MaxVersion /\ whole.name = Pad
    BY Now DEF WholeType, PadWritten
  <1>2. cache.storing = 0 /\ cache.seq % 2 /= 1 /\ \A i, j \in Pieces : cache.piece[i] = cache.piece[j]
    BY <1>1 DEF Copies, CacheInv
  <1>3. CASE /\ cache' = [cache EXCEPT !.storing = 1, !.version = whole.version]
             /\ fs'.closed[Pad].version = whole.version
    <2>1. /\ cache' \in CacheType /\ cache'.storing = 1 /\ cache'.version = whole.version
          /\ cache'.seq = cache.seq /\ cache'.piece = cache.piece
      <3>1. cache' = CacheOf(cache.seq, 1, whole.version, cache.piece)
        BY <1>3 DEF Copies, CacheType, CacheOf
      <3>2. cache.seq \in Nat /\ cache.piece \in [Pieces -> 0 .. Torn] /\ 1 \in 0 .. 5
        BY DEF Copies, CacheType
      <3> QED BY <1>1, <3>1, <3>2, CacheIs
    <2>2. CacheInv'
      BY <1>2, <1>3, <2>1 DEF CacheInv, Pieces
    <2>3. FlightInv'
      BY <2>1 DEF Copies, FlightInv
    <2> QED BY <2>1, <2>2, <2>3 DEF Copies
  <1>4. CASE cache' = cache /\ Pad \in spoilt'
    <2>1. CacheInv'
      BY <1>4 DEF Copies, CacheInv
    <2>2. FlightInv'
      BY <1>4 DEF Copies, FlightInv
    <2> QED BY <1>4, <2>1, <2>2 DEF Copies
  <1> QED BY <1>3, <1>4 DEF PadWritten

\* A boot: the copy is the file as it reads, and nobody reads it yet.
LEMMA CopiesFilled ==
    ASSUME StoreNow', cache' = Filled(fs'), flight' = Unread, whole'.at = "IDLE"
    PROVE  Copies'
  <1> DEFINE now == ReadsAs(fs', Pad)
  <1>1. fs' \in Store /\ ContentInv(fs', may', spoilt') /\ Pad \in Names /\ Pad \in Kept
    BY NamesIs, KeptIs DEF StoreNow, StoreOK
  <1>2. now \in Content
    BY <1>1, StoreFields DEF ReadsAs
  <1>3. fs'.closed[Pad] /= Absent => now = fs'.closed[Pad]
    BY DEF ReadsAs
  <1> HIDE DEF now
  <1> DEFINE x == IF now.whole THEN now.version ELSE IF now = Absent THEN 0 ELSE Torn
  <1>4. x \in 0 .. Torn
    BY <1>2, StoreConstants DEF Content, Torn
  <1>5. cache' = [seq |-> 0, storing |-> 0, version |-> 0, piece |-> [i \in Pieces |-> x]]
    BY DEF Filled, now
  <1>6. Pad \notin spoilt' /\ fs'.closed[Pad] /= Absent => x = fs'.closed[Pad].version
    BY <1>1, <1>3 DEF ContentInv, GoodIn
  <1> HIDE DEF x
  <1>7. cache' \in CacheType
    BY <1>4, <1>5, StoreConstants DEF CacheType
  <1>8. CacheInv'
    <2>1. /\ cache'.seq = 0 /\ cache'.storing = 0
          /\ \A i \in Pieces : cache'.piece[i] = x
      BY <1>5
    <2>2. 0 % 2 = 0
      OBVIOUS
    <2> QED BY <1>6, <2>1, <2>2 DEF CacheInv, Pieces
  <1>9. flight' \in FlightType /\ flight'.took = 0 /\ ~flight'.ok
    BY FilesConstants, StoreConstants DEF Unread, FlightType, Torn
  <1>10. FlightInv'
    BY <1>9 DEF FlightInv
  <1> QED BY <1>7, <1>8, <1>9, <1>10 DEF Copies

LEMMA CachedStep ==
    ASSUME Copies, Cached
    PROVE  Copies'
  <1>0. /\ cache \in CacheType /\ flight \in FlightType
        /\ cache.seq \in Nat /\ flight.seq \in Nat /\ cache.storing \in 0 .. 5 /\ flight.took \in 0 .. 4
        /\ cache.piece \in [Pieces -> 0 .. Torn] /\ cache.version \in 0 .. MaxVersion
    BY DEF Copies, CacheType, FlightType
  <1>1. UNCHANGED <<fs, whole, spoilt, flight>>
    BY DEF Cached, CacheBegins, CacheStores, CacheEnds, history
  <1>2. cache.storing /= 0
    BY DEF Cached, CacheBegins, CacheStores, CacheEnds, Pieces
  <1>3. ~(whole.at /= "IDLE" /\ whole.name = Pad)
    BY <1>2 DEF Copies, CacheInv
  <1>4. Pad \notin spoilt /\ fs.closed[Pad] /= Absent => cache.version = fs.closed[Pad].version
    BY <1>2 DEF Copies, CacheInv
  <1>5. CASE CacheBegins
    <2>1. /\ cache.storing = 1 /\ cache' = [cache EXCEPT !.seq = cache.seq + 1, !.storing = 2]
      BY <1>5 DEF CacheBegins
    <2>2. /\ cache' \in CacheType /\ cache'.seq = cache.seq + 1 /\ cache'.storing = 2
          /\ cache'.version = cache.version /\ cache'.piece = cache.piece
      <3>1. cache' = CacheOf(cache.seq + 1, 2, cache.version, cache.piece)
        BY <1>0, <2>1 DEF CacheType, CacheOf
      <3>2. cache.seq + 1 \in Nat /\ 2 \in 0 .. 5
        BY <1>0
      <3> QED BY <1>0, <3>1, <3>2, CacheIs
    <2>3. cache.seq % 2 /= 1
      BY <2>1 DEF Copies, CacheInv
    <2>4. cache'.seq % 2 = 1
      BY <1>0, <2>2, <2>3
    <2>5. CacheInv'
      BY <1>1, <1>3, <1>4, <2>2, <2>4 DEF CacheInv, Pieces
    <2>6. FlightInv'
      <3>1. flight.took /= 0 => flight.seq <= cache'.seq /\ flight.seq /= cache'.seq
        BY <1>0, <2>2 DEF Copies, FlightInv
      <3> QED BY <1>1, <3>1 DEF Copies, FlightInv
    <2> QED BY <1>0, <1>1, <2>2, <2>5, <2>6 DEF Copies
  <1>6. CASE CacheStores
    <2> DEFINE k == cache.storing - 1
    <2>1. /\ k \in Pieces
          /\ cache' = [cache EXCEPT !.piece[k] = cache.version, !.storing = cache.storing + 1]
      BY <1>6 DEF CacheStores
    <2>2. k \in 1 .. 3 /\ cache.storing = k + 1
      BY <1>0, <2>1 DEF Pieces
    <2> HIDE DEF k
    <2> DEFINE piece == [cache.piece EXCEPT ![k] = cache.version]
    <2>3. piece \in [Pieces -> 0 .. Torn] /\ piece[k] = cache.version
          /\ \A i \in Pieces : i /= k => piece[i] = cache.piece[i]
      BY <1>0, <2>1, StoreConstants DEF Torn
    <2>4. cache' = [cache EXCEPT !.piece = piece, !.storing = cache.storing + 1]
      BY <1>0, <2>1 DEF CacheType
    <2> HIDE DEF piece
    <2>5. /\ cache' \in CacheType /\ cache'.seq = cache.seq /\ cache'.storing = k + 2
          /\ cache'.version = cache.version /\ cache'.piece = piece
      <3>1. cache' = CacheOf(cache.seq, cache.storing + 1, cache.version, piece)
        BY <1>0, <2>4 DEF CacheType, CacheOf
      <3>2. cache.storing + 1 = k + 2 /\ k + 2 \in 0 .. 5
        BY <2>2
      <3> QED BY <1>0, <2>3, <3>1, <3>2, CacheIs
    <2>6. cache.seq % 2 = 1 /\ \A i \in Pieces : i + 2 <= k + 1 => cache.piece[i] = cache.version
      BY <2>2 DEF Copies, CacheInv
    <2>7. \A i \in Pieces : i + 2 <= cache'.storing => cache'.piece[i] = cache'.version
      BY <2>2, <2>3, <2>5, <2>6 DEF Pieces
    <2>8. cache'.storing \in {3, 4, 5}
      BY <2>2, <2>5
    <2>9. CacheInv'
      BY <1>1, <1>3, <1>4, <2>5, <2>6, <2>7, <2>8 DEF CacheInv
    <2>10. FlightInv'
      <3>1. flight.took /= 0 => flight.seq <= cache'.seq /\ flight.seq /= cache'.seq
        BY <1>0, <2>5, <2>6 DEF Copies, FlightInv
      <3> QED BY <1>1, <3>1 DEF Copies, FlightInv
    <2> QED BY <1>0, <1>1, <2>5, <2>9, <2>10 DEF Copies
  <1>7. CASE CacheEnds
    <2>1. cache.storing = 5 /\ cache' = [cache EXCEPT !.seq = cache.seq + 1, !.storing = 0]
      BY <1>7 DEF CacheEnds
    <2>2. /\ cache' \in CacheType /\ cache'.seq = cache.seq + 1 /\ cache'.storing = 0
          /\ cache'.version = cache.version /\ cache'.piece = cache.piece
      <3>1. cache' = CacheOf(cache.seq + 1, 0, cache.version, cache.piece)
        BY <1>0, <2>1 DEF CacheType, CacheOf
      <3>2. cache.seq + 1 \in Nat /\ 0 \in 0 .. 5
        BY <1>0
      <3> QED BY <1>0, <3>1, <3>2, CacheIs
    <2>3. cache.seq % 2 = 1 /\ \A i \in Pieces : cache.piece[i] = cache.version
      BY <2>1 DEF Copies, CacheInv, Pieces
    <2>4. cache'.seq % 2 = 0
      BY <1>0, <2>2, <2>3
    <2>5. CacheInv'
      BY <1>1, <1>3, <1>4, <2>2, <2>3, <2>4 DEF CacheInv, Pieces
    <2>6. FlightInv'
      <3>1. flight.took /= 0 => flight.seq <= cache'.seq /\ flight.seq /= cache'.seq
        BY <1>0, <2>2 DEF Copies, FlightInv
      <3> QED BY <1>1, <3>1 DEF Copies, FlightInv
    <2> QED BY <1>0, <1>1, <2>2, <2>5, <2>6 DEF Copies
  <1> QED BY <1>5, <1>6, <1>7 DEF Cached

LEMMA FlightReadsStep ==
    ASSUME Copies, FlightReads
    PROVE  Copies'
  <1>0. /\ cache \in CacheType /\ flight \in FlightType
        /\ cache.seq \in Nat /\ flight.seq \in Nat /\ flight.took \in 0 .. 4 /\ flight.try \in 0 .. Tries
        /\ cache.piece \in [Pieces -> 0 .. Torn] /\ flight.piece \in [Pieces -> 0 .. Torn]
    BY DEF Copies, CacheType, FlightType
  <1>1. UNCHANGED <<fs, whole, spoilt, cache>>
    BY DEF FlightReads, TryBegins, TryTakes, TryEnds, ReadsAgain, history
  <1>2. CacheInv'
    BY <1>1 DEF Copies, CacheInv
  <1>3. Tries \in Nat /\ Unread \in FlightType /\ Unread.took = 0 /\ ~Unread.ok
    BY FilesConstants, StoreConstants DEF Unread, FlightType, Torn
  <1>4. CASE TryBegins
    <2>1. /\ flight.try < Tries /\ flight.took = 0
          /\ flight' = IF cache.seq % 2 = 1 THEN [flight EXCEPT !.try = flight.try + 1]
                       ELSE [flight EXCEPT !.seq = cache.seq, !.took = 1]
      BY <1>4 DEF TryBegins
    <2>2. ~flight.ok
      BY <1>0, <1>3, <2>1 DEF Copies, FlightInv
    <2>3. CASE cache.seq % 2 = 1
      <3>1. flight.try + 1 \in 0 .. Tries
        BY <1>0, <1>3, <2>1
      <3>2. flight' \in FlightType /\ flight'.took = 0 /\ flight'.ok = flight.ok
        BY <1>0, <2>1, <2>3, <3>1 DEF FlightType
      <3>3. FlightInv'
        BY <2>2, <3>2 DEF FlightInv
      <3> QED BY <1>0, <1>1, <1>2, <3>2, <3>3 DEF Copies
    <2>4. CASE cache.seq % 2 /= 1
      <3>1. /\ flight' \in FlightType /\ flight'.took = 1 /\ flight'.seq = cache.seq /\ flight'.ok = flight.ok
            /\ flight'.try < Tries
        <4>1. flight' = FlightOf(flight.try, cache.seq, 1, flight.piece, flight.ok)
          BY <1>0, <2>1, <2>4 DEF FlightType, FlightOf
        <4>2. 1 \in 0 .. 4 /\ flight.ok \in BOOLEAN
          BY <1>0 DEF FlightType
        <4> DEFINE seq == cache.seq
                   piece == flight.piece
                   try == flight.try
                   ok == flight.ok
        <4>3. /\ seq \in Nat /\ piece \in [Pieces -> 0 .. Torn] /\ try \in 0 .. Tries
             /\ try < Tries /\ ok \in BOOLEAN
              /\ flight' = FlightOf(try, seq, 1, piece, ok)
          BY <1>0, <2>1, <4>1, <4>2
        <4> HIDE DEF seq, piece, try, ok
        <4>4. /\ flight' \in FlightType /\ flight'.took = 1 /\ flight'.seq = seq /\ flight'.ok = ok
              /\ flight'.try = try
          BY <4>2, <4>3 DEF FlightType, FlightOf
        <4> QED BY <4>3, <4>4 DEF seq, ok
      <3>2. cache.seq % 2 = 0
        BY <1>0, <2>4
      <3>3. FlightInv'
        BY <1>0, <1>1, <2>2, <3>1, <3>2 DEF FlightInv, Pieces
      <3> QED BY <1>0, <1>1, <1>2, <3>1, <3>3 DEF Copies
    <2> QED BY <2>3, <2>4
  <1>5. CASE TryTakes
    <2> DEFINE k == 4 - flight.took
               piece == [flight.piece EXCEPT ![k] = cache.piece[k]]
    <2>1. /\ flight.took \in Pieces
          /\ flight' = [flight EXCEPT !.piece[k] = cache.piece[k], !.took = flight.took + 1]
      BY <1>5 DEF TryTakes
    <2>2. k \in Pieces /\ flight.took \in 1 .. 3
      BY <2>1 DEF Pieces
    <2>3. k + flight.took = 4
      BY <2>2
    <2>4. flight' = [flight EXCEPT !.piece = piece, !.took = flight.took + 1]
      BY <1>0, <2>1 DEF FlightType
    <2> HIDE DEF k
    <2>5. /\ piece \in [Pieces -> 0 .. Torn] /\ piece[k] = cache.piece[k]
          /\ \A i \in Pieces : i /= k => piece[i] = flight.piece[i]
      BY <1>0, <2>2
    <2> HIDE DEF piece
    <2>6. /\ flight' \in FlightType /\ flight'.took = flight.took + 1 /\ flight'.piece = piece
          /\ flight'.seq = flight.seq /\ flight'.ok = flight.ok /\ flight'.try = flight.try
      <3>1. flight' = FlightOf(flight.try, flight.seq, flight.took + 1, piece, flight.ok)
        BY <1>0, <2>4 DEF FlightType, FlightOf
      <3>2. flight.took + 1 \in 0 .. 4 /\ flight.ok \in BOOLEAN
        BY <1>0, <2>2 DEF FlightType
      <3> DEFINE seq == flight.seq
                 took == flight.took + 1
                 try == flight.try
                 ok == flight.ok
      <3>3. /\ seq \in Nat /\ took \in 0 .. 4 /\ try \in 0 .. Tries /\ ok \in BOOLEAN
            /\ flight' = FlightOf(try, seq, took, piece, ok)
        BY <1>0, <3>1, <3>2
      <3> HIDE DEF seq, took, try, ok
      <3>4. /\ flight' \in FlightType /\ flight'.took = took /\ flight'.piece = piece
            /\ flight'.seq = seq /\ flight'.ok = ok /\ flight'.try = try
        BY <2>5, <3>3 DEF FlightType, FlightOf
      <3> QED BY <3>4 DEF seq, took, try, ok
    <2>7. ~flight.ok
      BY <2>2 DEF Copies, FlightInv
    <2>8. /\ flight.try < Tries /\ flight.seq <= cache.seq /\ flight.seq % 2 = 0
          /\ flight.seq = cache.seq => \A i \in Pieces : i + flight.took >= 5 => flight.piece[i] = cache.piece[i]
      BY <2>2 DEF Copies, FlightInv
    <2>9. flight.seq = cache.seq => \A i \in Pieces : i + (flight.took + 1) >= 5 => piece[i] = cache.piece[i]
      <3>1. \A i \in Pieces : i + (flight.took + 1) >= 5 => i = k \/ i + flight.took >= 5
        BY <2>2, <2>3 DEF Pieces
      <3> QED BY <2>5, <2>8, <3>1
    <2>10. FlightInv'
      BY <1>1, <2>6, <2>7, <2>8, <2>9 DEF FlightInv
    <2> QED BY <1>0, <1>1, <1>2, <2>6, <2>10 DEF Copies
  <1>6. CASE TryEnds
    <2>1. /\ flight.took = 4
          /\ flight' = IF cache.seq = flight.seq
                       THEN [flight EXCEPT !.took = 0, !.try = Tries, !.ok = TRUE]
                       ELSE [Unread EXCEPT !.try = flight.try + 1]
      BY <1>6 DEF TryEnds
    <2>2. CASE cache.seq = flight.seq
      <3>1. /\ flight' \in FlightType /\ flight'.took = 0 /\ flight'.try = Tries /\ flight'.piece = flight.piece
        <4>1. flight' = FlightOf(Tries, flight.seq, 0, flight.piece, TRUE)
          BY <1>0, <2>1, <2>2 DEF FlightType, FlightOf
        <4>2. Tries \in 0 .. Tries /\ 0 \in 0 .. 4
          BY <1>3
        <4> DEFINE seq == flight.seq
                   piece == flight.piece
                   try == Tries
                   took == 0
                   ok == TRUE
        <4>3. /\ seq \in Nat /\ piece \in [Pieces -> 0 .. Torn] /\ try \in 0 .. Tries /\ took \in 0 .. 4
              /\ ok \in BOOLEAN /\ flight' = FlightOf(try, seq, took, piece, ok)
          BY <1>0, <4>1, <4>2
        <4> HIDE DEF seq, piece, try, took, ok
        <4>4. /\ flight' \in FlightType /\ flight'.took = took /\ flight'.try = try /\ flight'.piece = piece
          BY <4>3 DEF FlightType, FlightOf
        <4> QED BY <4>4 DEF piece, try, took
      <3>2. flight.seq % 2 = 0 /\ \A i \in Pieces : flight.piece[i] = cache.piece[i]
        BY <2>1, <2>2 DEF Copies, FlightInv, Pieces
      <3>3. cache.storing \notin {2, 3, 4, 5}
        BY <2>2, <3>2 DEF Copies, CacheInv
      <3>4. cache.storing \in {0, 1}
        BY <1>0, <3>3 DEF CacheType
      <3>5. \A i, j \in Pieces : cache.piece[i] = cache.piece[j]
        BY <3>4 DEF Copies, CacheInv
      <3>6. FlightInv'
        BY <3>1, <3>2, <3>5 DEF FlightInv
      <3> QED BY <1>0, <1>1, <1>2, <3>1, <3>6 DEF Copies
    <2>3. CASE cache.seq /= flight.seq
      <3>1. flight.try < Tries
        BY <2>1 DEF Copies, FlightInv
      <3>2. flight.try + 1 \in 0 .. Tries
        BY <1>0, <1>3, <3>1
      <3>3. flight' \in FlightType /\ flight'.took = 0 /\ ~flight'.ok
        BY <1>3, <2>1, <2>3, <3>2 DEF FlightType
      <3>4. FlightInv'
        BY <3>3 DEF FlightInv
      <3> QED BY <1>0, <1>1, <1>2, <3>3, <3>4 DEF Copies
    <2> QED BY <2>2, <2>3
  <1>7. CASE ReadsAgain
    <2>1. flight' = Unread
      BY <1>7 DEF ReadsAgain
    <2>2. FlightInv'
      BY <1>3, <2>1 DEF FlightInv
    <2> QED BY <1>0, <1>1, <1>2, <1>3, <2>1, <2>2 DEF Copies
  <1> QED BY <1>4, <1>5, <1>6, <1>7 DEF FlightReads

-----------------------------------------------------------------------------
(* The theorems *)

BoundsOK == resets \in 0 .. MaxResets /\ timeouts \in 0 .. MaxTimeouts
Inv == StoreNow /\ CopiesTried /\ Copies /\ BoundsOK

LEMMA InvInit ==
    ASSUME Init
    PROVE  Inv
  <1>1. /\ fs = EmptyStore /\ conn = [c \in Conns |-> Idle]
        /\ whole = [at |-> "IDLE", name |-> Dest, version |-> 0] /\ version = 0
        /\ cache = Filled(EmptyStore) /\ flight = Unread
        /\ may = [n \in Kept |-> {0}] /\ spoilt = {} /\ resets = 0 /\ timeouts = 0
    BY DEF Init
  <1>2. Absent \in Content /\ Absent.version = 0 /\ ~Absent.whole /\ 0 \in 0 .. MaxVersion
    BY StoreConstants DEF Absent, Content
  <1>3. fs \in Store
    <2>1. NoCopy \in [is: {"NONE", "OPEN", "LEFT"}, got: Content]
      BY <1>2 DEF NoCopy
    <2> QED BY <1>1, <1>2, <2>1 DEF EmptyStore, Store
  <1>4. /\ fs.held = 0 /\ fs.failed = {}
        /\ \A r \in Readers : fs.reading[r] = NoName
        /\ \A n \in Names : fs.closed[n] = Absent /\ fs.writing[n] = NoCopy
    BY <1>1 DEF EmptyStore
  <1>5. conn \in ConnType /\ (\A c \in Conns : conn[c].at = "IDLE") /\ whole \in WholeType /\ whole.at = "IDLE"
    BY <1>1, <1>2, KeptIs DEF Idle, ConnType, WholeType
  <1>6. Up(conn) = {} /\ Open(fs) = {} /\ IsFiniteSet(Open(fs)) /\ Cardinality(Open(fs)) = 0
    BY <1>4, <1>5, OpenNone DEF Up
  <1>7. HandlesInv(fs, conn, whole, timeouts)
    BY <1>1, <1>4, <1>5, <1>6 DEF HandlesInv
  <1>8. VersionsInv(fs, conn, whole, version) /\ RenameInv(fs, conn)
    <2>1. \A n \in Names : fs.closed[n].version <= version
      BY <1>1, <1>2, <1>4
    <2> QED BY <1>5, <2>1 DEF VersionsInv, RenameInv
  <1>9. ContentInv(fs, may, spoilt)
    BY <1>1, <1>4, NamesIs, KeptIs DEF ContentInv, GoodIn
  <1>10. Typed(conn, whole, version, may, spoilt, timeouts)
    BY <1>1, <1>2, <1>5 DEF Typed, MayType
  <1>11. ReadsAs(EmptyStore, Pad) = Absent
    BY <1>1, <1>4, NamesIs DEF ReadsAs, NoCopy
  <1>12. cache = CacheOf(0, 0, 0, [i \in Pieces |-> 0])
    BY <1>1, <1>2, <1>11 DEF Filled, CacheOf
  <1>13. Copies
    <2>1. [i \in Pieces |-> 0] \in [Pieces -> 0 .. Torn] /\ 0 \in Nat /\ 0 \in 0 .. 5
      BY StoreConstants DEF Torn
    <2>2. /\ cache \in CacheType /\ cache.seq = 0 /\ cache.storing = 0
          /\ cache.piece = [i \in Pieces |-> 0]
      BY <1>2, <1>12, <2>1, CacheIs
    <2>3. 0 % 2 = 0
      OBVIOUS
    <2>4. CacheInv
      BY <1>4, <1>5, <2>2, <2>3, NamesIs DEF CacheInv, Pieces
    <2>5. flight \in FlightType /\ flight.took = 0 /\ ~flight.ok
      BY <1>1, FilesConstants, StoreConstants DEF Unread, FlightType, Torn
    <2>6. FlightInv
      BY <2>5 DEF FlightInv
    <2> QED BY <2>2, <2>4, <2>5, <2>6 DEF Copies
  <1>14. BoundsOK
    BY <1>1, FilesConstants DEF BoundsOK
  <1>15. CopiesTried
    BY <1>4, NamesIs, KeptIs DEF CopiesTried, NoCopy
  <1> QED BY <1>3, <1>7, <1>8, <1>9, <1>10, <1>13, <1>14, <1>15 DEF Inv, StoreNow, StoreOK

LEMMA BoundsStep ==
    ASSUME StoreNow, BoundsOK, Next
    PROVE  BoundsOK'
  <1>0. fs \in Store /\ MaxResets \in Nat /\ MaxTimeouts \in Nat
    BY Now, FilesConstants
  <1>1. ASSUME NEW n, NEW r \in Closings(n), Closed(r)
        PROVE  timeouts' \in 0 .. MaxTimeouts
    <2>1. r.late = 0 \/ (r.late = 1 /\ timeouts \in 0 .. MaxTimeouts - 1)
      BY <1>0, ClosingsIs
    <2>2. timeouts' = timeouts + r.late
      BY <1>1 DEF Closed
    <2> QED BY <1>0, <2>1, <2>2 DEF BoundsOK
  <1>2. CASE \E c \in Conns : UploadClose(c) \/ UploadDies(c)
    <2>1. resets' = resets /\ \E r \in Closings(Part) : Closed(r)
      BY <1>2 DEF UploadClose, UploadDies
    <2> QED BY <1>1, <2>1 DEF BoundsOK
  <1>3. CASE WholeClose
    <2>1. resets' = resets /\ \E r \in Closings(whole.name) : Closed(r)
      BY <1>3 DEF WholeClose
    <2> QED BY <1>1, <2>1 DEF BoundsOK
  <1>4. CASE PowerCut
    BY <1>0, <1>4 DEF PowerCut, BoundsOK
  <1>5. CASE \/ \E c \in Conns : UploadOpen(c) \/ UploadBody(c) \/ UploadRename(c) \/ UploadRemove(c)
             \/ \E r \in Readers : ReadOpen(r) \/ ReadClose(r) \/ ReadReopenFails(r)
             \/ DeleteFile \/ WholeOpen \/ WholeWrite \/ Clean
    <2>1. UNCHANGED bounds
      BY <1>5 DEF UploadOpen, UploadBody, UploadRename, UploadRemove, ReadOpen, ReadClose, ReadReopenFails,
                  DeleteFile, WholeOpen, WholeWrite, Clean
    <2> QED BY <2>1 DEF bounds, BoundsOK
  <1>6. CASE Cached \/ FlightReads
    <2>1. UNCHANGED bounds
      BY <1>6 DEF Cached, CacheBegins, CacheStores, CacheEnds, FlightReads, TryBegins, TryTakes, TryEnds, ReadsAgain
    <2> QED BY <2>1 DEF bounds, BoundsOK
  <1> QED BY <1>2, <1>3, <1>4, <1>5, <1>6 DEF Next, Upload

LEMMA InvStep ==
    ASSUME Inv, [Next]_vars
    PROVE  Inv'
  <1>0. StoreNow /\ Copies /\ BoundsOK
    BY DEF Inv
  <1>3. CopiesTried'
    BY TriedStep DEF Inv
  <1>1. CASE UNCHANGED vars
    <2>1. UNCHANGED <<fs, conn, whole, version, cache, flight, may, spoilt, resets, timeouts>>
      BY <1>1 DEF vars, history, bounds
    <2> QED BY <1>0, <1>3, <2>1 DEF Inv, StoreNow, Copies, CacheInv, FlightInv, BoundsOK
  <1>2. CASE Next
    <2>0. BoundsOK'
      BY <1>0, <1>2, BoundsStep
    <2>1. whole.at /= "IDLE" /\ whole.name = Pad => cache.storing = 0
      BY <1>0 DEF Copies, CacheInv
    <2>2. CASE \E c \in Conns : Upload(c)
      <3>1. PICK c \in Conns : Upload(c)
        BY <2>2
      <3>2. StoreNow' /\ PadKept
        BY <1>0, <3>1, UploadOpenStep, UploadBodyStep, UploadCloseStep, UploadRenameStep, UploadRemoveStep
           DEF Upload
      <3>3. UNCHANGED <<whole, cache, flight>>
        BY <3>1 DEF Upload, UploadOpen, UploadBody, UploadClose, UploadRename, UploadDies, UploadRemove
      <3>4. Copies'
        BY <1>0, <2>1, <3>2, <3>3, CopiesKept
      <3> QED BY <1>3, <2>0, <3>2, <3>4 DEF Inv
    <2>3. CASE \E r \in Readers : ReadOpen(r) \/ ReadClose(r) \/ ReadReopenFails(r)
      <3>1. StoreNow' /\ PadKept
        BY <1>0, <2>3, ReaderSteps
      <3>2. UNCHANGED <<whole, cache, flight>>
        BY <2>3 DEF ReadOpen, ReadClose, ReadReopenFails
      <3>3. Copies'
        BY <1>0, <2>1, <3>1, <3>2, CopiesKept
      <3> QED BY <1>3, <2>0, <3>1, <3>3 DEF Inv
    <2>4. CASE DeleteFile \/ Clean
      <3>1. StoreNow' /\ PadKept
        BY <1>0, <2>4, DeleteStep, CleanStep
      <3>2. UNCHANGED <<whole, cache, flight>>
        BY <2>4 DEF DeleteFile, Clean
      <3>3. Copies'
        BY <1>0, <2>1, <3>1, <3>2, CopiesKept
      <3> QED BY <1>3, <2>0, <3>1, <3>3 DEF Inv
    <2>5. CASE WholeOpen
      <3>1. StoreNow' /\ PadKept
        BY <1>0, <2>5, WholeOpenStep
      <3>2. UNCHANGED <<cache, flight>> /\ (whole'.name = Pad => cache.storing = 0)
        BY <2>5 DEF WholeOpen
      <3>3. Copies'
        BY <1>0, <3>1, <3>2, CopiesKept
      <3> QED BY <1>3, <2>0, <3>1, <3>3 DEF Inv
    <2>6. CASE WholeWrite
      <3>1. StoreNow' /\ PadKept
        BY <1>0, <2>6, WholeWriteStep
      <3>2. UNCHANGED <<cache, flight>> /\ whole'.name = whole.name /\ whole.at /= "IDLE"
        BY <1>0, <2>6, Now DEF WholeWrite, WholeType
      <3>3. Copies'
        BY <1>0, <2>1, <3>1, <3>2, CopiesKept
      <3> QED BY <1>3, <2>0, <3>1, <3>3 DEF Inv
    <2>7. CASE WholeClose
      <3>1. StoreNow' /\ whole'.at = "IDLE" /\ ((PadKept /\ cache' = cache) \/ PadWritten)
        BY <1>0, <2>7, WholeCloseStep
      <3>2. flight' = flight /\ whole.at /= "IDLE"
        BY <2>7 DEF WholeClose
      <3>3. Copies'
        BY <1>0, <3>1, <3>2, CopiesKept, CopiesWritten
      <3> QED BY <1>3, <2>0, <3>1, <3>3 DEF Inv
    <2>8. CASE Cached \/ FlightReads
      <3>1. UNCHANGED <<fs, conn, whole, version, may, spoilt, timeouts>>
        BY <2>8 DEF Cached, CacheBegins, CacheStores, CacheEnds, FlightReads, TryBegins, TryTakes,
                    TryEnds, ReadsAgain, history, bounds
      <3>2. StoreNow'
        BY <1>0, <3>1 DEF StoreNow
      <3>3. Copies'
        BY <1>0, <2>8, CachedStep, FlightReadsStep
      <3> QED BY <1>3, <2>0, <3>2, <3>3 DEF Inv
    <2>9. CASE PowerCut
      <3>1. StoreNow'
        BY <1>0, <2>9, PowerCutStep
      <3>2. cache' = Filled(fs') /\ flight' = Unread /\ whole'.at = "IDLE"
        BY <2>9 DEF PowerCut
      <3>3. Copies'
        BY <3>1, <3>2, CopiesFilled
      <3> QED BY <1>3, <2>0, <3>1, <3>3 DEF Inv
    <2> QED BY <1>2, <2>2, <2>3, <2>4, <2>5, <2>6, <2>7, <2>8, <2>9 DEF Next
  <1> QED BY <1>1, <1>2

LEMMA InvType ==
    ASSUME Inv
    PROVE  TypeOK
  BY Now DEF Inv, Copies, BoundsOK, TypeOK, ConnType, WholeType, MayType, CacheType, FlightType

\* The store's files and handles, and the copy's pieces, stay of their types,
\* whatever fails (vfs_flash.c, hal_common.c).
THEOREM TypeCorrect == Spec => []TypeOK
  <1> QED BY InvInit, InvStep, InvType, PTL DEF Spec

\* No handle in anyone's hands is forgotten by a mount, whatever fails, times
\* out or is reset (vfs_flash.c: held, failed[], let_go).
THEOREM HandlesAreKnown == Spec => []HandlesKnown
  <1>1. Inv => HandlesKnown
    <2> SUFFICES ASSUME Inv PROVE HandlesKnown
      OBVIOUS
    <2>1. StoreNow /\ TypeOK
      BY InvType DEF Inv
    <2>2. HandlesInv(fs, conn, whole, timeouts)
      BY <2>1, Now
    <2>3. Uploading = Up(conn) /\ Reading = Open(fs)
      BY DEF Uploading, Up, Reading, Open
    <2>4. Cardinality(Up(conn)) = IF Up(conn) = {} THEN 0 ELSE 1
      <3>1. CASE Up(conn) = {}
        BY <3>1, FS_EmptySet
      <3>2. ASSUME NEW c \in Up(conn)
            PROVE  Cardinality(Up(conn)) = 1
        <4>1. Up(conn) = {c}
          BY <2>2 DEF HandlesInv, Up
        <4> QED BY <4>1, FS_Singleton
      <3> QED BY <3>1, <3>2
    <2>5. fs.held = Cardinality(Up(conn)) + Cardinality(Open(fs)) + (IF whole.at = "IDLE" THEN 0 ELSE 1) + timeouts
      BY <2>2, <2>4 DEF HandlesInv
    <2> QED BY <2>1, <2>2, <2>3, <2>5 DEF HandlesKnown, HandlesInv
  <1> QED BY <1>1, InvInit, InvStep, PTL DEF Spec

\* What a name reads as is of the last content acknowledged or of one tried since,
\* and whole wherever there was a file before, but for a name a whole-file write was
\* cut short over; a first copy never closed reads as far as it got (vfs_flash.h;
\* vfs_flash.c vfs_flash_rename; http_server.c).
THEOREM PreviousStaysWhole == Spec => []PreviousWhole
  <1>1. Inv => PreviousWhole
    <2> SUFFICES ASSUME Inv, NEW n \in Kept, n \notin spoilt PROVE Good(n)
      BY DEF PreviousWhole
    <2>1. GoodIn(fs, may, n)
      BY Now DEF Inv, ContentInv
    <2>2. CASE fs.closed[n] /= Absent \/ fs.writing[n].is /= "LEFT"
      BY <2>1, <2>2 DEF GoodIn, Good, ReadsAs
    <2>3. CASE fs.closed[n] = Absent /\ fs.writing[n].is = "LEFT"
      <3>1. 0 \in may[n]
        BY <2>1, <2>3 DEF GoodIn
      <3>2. fs.writing[n].got.version \in may[n] \cup Tried(n)
        BY <2>3 DEF Inv, CopiesTried
      <3>3. Tried(n) = {}
        BY <2>3, Now DEF Inv, HandlesInv, Tried
      <3> QED BY <2>3, <3>1, <3>2, <3>3 DEF Good, ReadsAs
    <2> QED BY <2>2, <2>3
  <1> QED BY <1>1, InvInit, InvStep, PTL DEF Spec

\* What the flight task takes for the pad marker was stored as one, and once
\* stored the copy is the file's (hal_fs_read_cached, cached_store, write_file).
THEOREM CacheTellsTrue == Spec => []CacheTells
  <1>1. Inv => CacheTells
    BY DEF Inv, Copies, CacheInv, FlightInv, CacheTells
  <1> QED BY <1>1, InvInit, InvStep, PTL DEF Spec
=============================================================================
