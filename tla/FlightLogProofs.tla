--------------------------- MODULE FlightLogProofs ---------------------------
(***************************************************************************)
(* RingInOrder and FlightRecord's promise, for a ring of any size and rows,   *)
(* passes and times without bound.                                           *)
(***************************************************************************)
EXTENDS FlightLog, SequenceTheorems, TLAPS

-----------------------------------------------------------------------------
(* The ring's slots: positions closer than its size do not share one.        *)

LEMMA SizeType == Size \in Nat /\ Size > 1
  BY FlightLogConstants

LEMMA BoundTypes ==
    /\ Holdoff \in Nat /\ Flush \in Nat /\ Sync \in Nat /\ StopMax \in Nat
    /\ MaxRows \in Nat /\ Passes \in Nat /\ Passes > 0
  BY FlightLogConstants

LEMMA MulStep ==
    ASSUME NEW q \in Int, NEW p \in Int, q < p
    PROVE  Size * q + Size <= Size * p
<1>1. PICK d \in Nat : p = q + 1 + d
  <2>1. p - q - 1 \in Nat
    OBVIOUS
  <2> QED BY <2>1
<1>2. Size * p = Size * q + Size + Size * d
  BY <1>1, SizeType
<1>3. Size * d \in Nat /\ Size * q \in Int
  BY SizeType
<1> QED BY <1>2, <1>3, SizeType

LEMMA Division ==
    ASSUME NEW a \in Nat
    PROVE  a % Size \in 0..(Size - 1) /\ \E q \in Nat : a = Size * q + (a % Size)
<1>1. a % Size \in 0..(Size - 1)
  BY SizeType
<1>2. a \div Size \in Nat /\ a = Size * (a \div Size) + (a % Size)
  BY SizeType
<1> QED BY <1>1, <1>2

LEMMA DivisionUnique ==
    ASSUME NEW q \in Int, NEW p \in Int, NEW r \in 0..(Size - 1), NEW t \in 0..(Size - 1),
           Size * q + r = Size * p + t
    PROVE  q = p /\ r = t
<1>1. Size * q \in Int /\ Size * p \in Int
  BY SizeType
<1>2. ~(q < p) /\ ~(p < q)
  BY <1>1, MulStep, SizeType
<1> QED BY <1>1, <1>2, SizeType

LEMMA SlotAfter ==
    ASSUME NEW a \in Nat, NEW k \in Nat, k + (a % Size) < Size
    PROVE  (a + k) % Size = (a % Size) + k
<1>1. PICK q \in Nat, r \in 0..(Size - 1) : a = Size * q + r /\ r = a % Size
  BY Division
<1>2. PICK p \in Nat, t \in 0..(Size - 1) : a + k = Size * p + t /\ t = (a + k) % Size
  <2>1. a + k \in Nat
    OBVIOUS
  <2> QED BY <2>1, Division
<1>3. Size * q \in Int /\ Size * p \in Int
  BY SizeType
<1>4. Size * q + (r + k) = Size * p + t /\ r + k \in 0..(Size - 1)
  BY <1>1, <1>2, <1>3, SizeType
<1>5. r + k = t
  BY <1>4, DivisionUnique
<1> QED BY <1>1, <1>2, <1>5

LEMMA SlotsApart ==
    ASSUME NEW j \in Nat, NEW k \in Nat, j < k, k - j < Size
    PROVE  j % Size # k % Size
<1> SUFFICES ASSUME j % Size = k % Size PROVE FALSE
  OBVIOUS
<1>1. PICK q \in Nat : j = Size * q + (j % Size)
  BY Division
<1>2. PICK p \in Nat : k = Size * p + (k % Size)
  BY Division
<1>3. j % Size \in 0..(Size - 1)
  BY Division
<1>4. Size * q \in Int /\ Size * p \in Int
  BY SizeType
<1>5. CASE q < p
  BY <1>1, <1>2, <1>3, <1>4, <1>5, MulStep, SizeType
<1>6. CASE p < q
  BY <1>1, <1>2, <1>3, <1>4, <1>6, MulStep, SizeType
<1>7. CASE p = q
  BY <1>1, <1>2, <1>3, <1>4, <1>7, SizeType
<1> QED BY <1>5, <1>6, <1>7

-----------------------------------------------------------------------------
(* The invariant.  What the ring has between its ends is the units after      *)
(* those the file has, and the counters tell how far each of the two got.     *)

RowSet == [kind : Kinds \cup {"OPENING", "NONE"}, n : Nat]
UnitSet == [row : RowSet, half : 0..2]
UnitAt(rows, i) == Unit(rows[(i + 1) \div 2], 2 - (i % 2))

Shape ==
    /\ TypeOK
    /\ taken \in Seq(RowSet) /\ file \in Seq(UnitSet) /\ ring \in [0..(Size - 1) -> UnitSet]
    /\ put \in Seq(RowSet) /\ (put = <<>> \/ Len(put) = 1)

\* How far the rows, the ring and the file are, and where a pass may be.
Counted ==
    /\ state = "NEVER" => taken = <<>> /\ head = 0 /\ tail = 0 /\ put = <<>> /\ file = <<>> /\ opened = 0
    /\ state # "NEVER" => /\ 2 * Len(taken) = 2 * Opening + head
                          /\ \A n \in 1..Opening : taken[n] = Row("OPENING", n)
    /\ state \in {"RUNNING", "STOPPING"} =>
           /\ Len(file) = opened + tail + (IF pass = "TAIL" THEN wrote ELSE 0)
           /\ opened < 2 * Opening => tail = 0 /\ pass \notin {"HEAD", "SPAN", "TAIL"}
    /\ pass # "OVER" => /\ state \in {"RUNNING", "STOPPING"} /\ st \in {"RUNNING", "STOPPING"}
                        /\ st = "STOPPING" => state = "STOPPING"
    /\ pass \in {"SPAN", "TAIL"} => tail <= seen /\ seen <= head
    /\ pass = "TAIL" => tail + wrote <= seen

\* The ring between its ends, and a row put whose head is not out yet.
RingHolds ==
    /\ \A j \in tail..(head - 1) : ring[j % Size] = UnitAt(taken, 2 * Opening + j + 1)
    /\ put # <<>> => /\ state = "RUNNING" /\ Room >= 2 /\ put[1] \in [kind : Kinds, n : 0..MaxRows]
                     /\ ring[head % Size] = Unit(put[1], 1) /\ ring[(head + 1) % Size] = Unit(put[1], 2)

FileHolds ==
    /\ Len(file) <= 2 * Len(taken)
    /\ \A i \in 1..Len(file) : file[i] = UnitAt(taken, i)

Inv == Shape /\ Counted /\ RingHolds /\ FileHolds

-----------------------------------------------------------------------------
(* Rows and their units.                                                     *)

LEMMA UnitsOfRows ==
    ASSUME NEW rows \in Seq(RowSet)
    PROVE  /\ Units(rows) \in Seq(UnitSet) /\ Len(Units(rows)) = 2 * Len(rows)
           /\ \A i \in 1..(2 * Len(rows)) :
                  /\ (i + 1) \div 2 \in 1..Len(rows)
                  /\ UnitAt(rows, i) \in UnitSet /\ Units(rows)[i] = UnitAt(rows, i)
<1>1. Len(rows) \in Nat
  OBVIOUS
<1>2. \A i \in 1..(2 * Len(rows)) : (i + 1) \div 2 \in 1..Len(rows) /\ 2 - (i % 2) \in 0..2
  BY <1>1
<1>3. \A i \in 1..(2 * Len(rows)) : UnitAt(rows, i) \in UnitSet
  BY <1>2 DEF UnitAt, Unit, UnitSet
<1>4. Units(rows) = [i \in 1..(2 * Len(rows)) |-> UnitAt(rows, i)]
  BY DEF Units, UnitAt
<1>5. Units(rows) \in [1..(2 * Len(rows)) -> UnitSet]
  BY <1>3, <1>4
<1> QED BY <1>1, <1>2, <1>3, <1>4, <1>5

LEMMA UnitsKept ==
    ASSUME NEW rows \in Seq(RowSet), NEW more \in Seq(RowSet), NEW i \in 1..(2 * Len(rows))
    PROVE  UnitAt(rows \o more, i) = UnitAt(rows, i)
<1>1. (i + 1) \div 2 \in 1..Len(rows)
  BY UnitsOfRows
<1> QED BY <1>1 DEF UnitAt

LEMMA OpeningTyped ==
    /\ Opening \in Nat /\ OpeningRows \in Seq(RowSet) /\ Len(OpeningRows) = Opening
    /\ \A n \in 1..Opening : OpeningRows[n] = Row("OPENING", n)
<1>1. Opening \in Nat
  BY FlightLogConstants
<1>2. \A n \in 1..Opening : Row("OPENING", n) \in RowSet
  BY <1>1 DEF Row, RowSet
<1> QED BY <1>1, <1>2 DEF OpeningRows

\* The file grown by the units that come next in what was taken.
LEMMA FileGrows ==
    ASSUME Shape, FileHolds, NEW c \in Seq(UnitSet), file' = file \o c, taken' = taken,
           Len(file) + Len(c) <= 2 * Len(taken),
           \A i \in 1..Len(c) : c[i] = UnitAt(taken, Len(file) + i)
    PROVE  FileHolds' /\ file' \in Seq(UnitSet) /\ Len(file') = Len(file) + Len(c)
<1>1. file \in Seq(UnitSet)
  BY DEF Shape
<1>2. /\ file' \in Seq(UnitSet) /\ Len(file') = Len(file) + Len(c)
      /\ \A i \in 1..(Len(file) + Len(c)) :
             file'[i] = IF i <= Len(file) THEN file[i] ELSE c[i - Len(file)]
  BY <1>1, ConcatProperties
<1>3. ASSUME NEW i \in 1..Len(file') PROVE file'[i] = UnitAt(taken, i)
  <2>1. Len(file) \in Nat /\ Len(c) \in Nat
    BY <1>1
  <2>2. CASE i <= Len(file)
    BY <1>2, <2>1, <2>2 DEF FileHolds
  <2>3. CASE i > Len(file)
    <3>1. i - Len(file) \in 1..Len(c) /\ Len(file) + (i - Len(file)) = i
      BY <1>2, <2>1, <2>3
    <3> QED BY <1>2, <2>1, <2>3, <3>1
  <2> QED BY <2>1, <2>2, <2>3
<1> QED BY <1>2, <1>3 DEF FileHolds, UnitAt

\* Units of the opening are what the file has next while it has no others.
LEMMA OpeningChunk ==
    ASSUME Shape, Counted, state \in {"RUNNING", "STOPPING"}, Len(file) = opened,
           NEW n \in Nat, opened + n <= 2 * Opening
    PROVE  LET c == SubSeq(Units(OpeningRows), opened + 1, opened + n)
           IN  /\ c \in Seq(UnitSet) /\ Len(c) = n
               /\ Len(file) + Len(c) <= 2 * Len(taken)
               /\ \A i \in 1..Len(c) : c[i] = UnitAt(taken, Len(file) + i)
<1> DEFINE c == SubSeq(Units(OpeningRows), opened + 1, opened + n)
<1>1. opened \in Nat /\ head \in Nat
  BY DEF Shape, TypeOK
<1>2. /\ Units(OpeningRows) \in Seq(UnitSet) /\ Len(Units(OpeningRows)) = 2 * Opening
      /\ \A i \in 1..(2 * Opening) : Units(OpeningRows)[i] = UnitAt(OpeningRows, i) /\ (i + 1) \div 2 \in 1..Opening
  BY OpeningTyped, UnitsOfRows
<1>3. \A i \in (opened + 1)..(opened + n) : i \in 1..(2 * Opening) /\ Units(OpeningRows)[i] \in UnitSet
  BY <1>1, <1>2, OpeningTyped
<1>4. c \in Seq(UnitSet) /\ Len(c) = n /\ \A i \in 1..n : c[i] = Units(OpeningRows)[opened + i]
  <2>1. opened + 1 \in Int /\ opened + n \in Int
    BY <1>1
  <2>2. /\ c \in Seq(UnitSet)
        /\ Len(c) = IF opened + 1 <= opened + n THEN (opened + n) - (opened + 1) + 1 ELSE 0
        /\ \A i \in 1..((opened + n) - (opened + 1) + 1) : c[i] = Units(OpeningRows)[(opened + 1) + i - 1]
    BY <1>3, <2>1, SubSeqProperties
  <2>3. (opened + n) - (opened + 1) + 1 = n /\ \A i \in 1..n : (opened + 1) + i - 1 = opened + i
    BY <1>1
  <2>4. Len(c) = n
    BY <1>1, <2>2
  <2> QED BY <2>2, <2>3, <2>4
<1>5. 2 * Len(taken) = 2 * Opening + head /\ \A k \in 1..Opening : taken[k] = OpeningRows[k]
  BY OpeningTyped DEF Counted
<1>6. ASSUME NEW i \in 1..n PROVE c[i] = UnitAt(taken, Len(file) + i)
  <2>1. opened + i \in 1..(2 * Opening)
    BY <1>1, OpeningTyped
  <2>2. UnitAt(taken, opened + i) = UnitAt(OpeningRows, opened + i)
    BY <1>2, <1>5, <2>1 DEF UnitAt
  <2> QED BY <1>2, <1>4, <2>1, <2>2
<1>7. Len(file) + Len(c) <= 2 * Len(taken)
  BY <1>1, <1>4, <1>5, OpeningTyped
<1>8. \A i \in 1..Len(c) : c[i] = UnitAt(taken, Len(file) + i)
  BY <1>4, <1>6
<1> QED BY <1>4, <1>7, <1>8

\* And units of the ring once it has all the opening's.
LEMMA SpanChunk ==
    ASSUME Shape, Counted, RingHolds, pass = "SPAN", NEW n \in Nat, n <= Span
    PROVE  LET c == [i \in 1..n |-> ring[(tail % Size) + i - 1]]
           IN  /\ c \in Seq(UnitSet) /\ Len(c) = n
               /\ Len(file) + Len(c) <= 2 * Len(taken) /\ tail + n <= seen
               /\ \A i \in 1..Len(c) : c[i] = UnitAt(taken, Len(file) + i)
<1> DEFINE c == [i \in 1..n |-> ring[(tail % Size) + i - 1]]
<1>1. tail \in Nat /\ head \in Nat /\ seen \in Nat /\ opened \in Nat /\ tail <= seen /\ seen <= head
  BY DEF Shape, TypeOK, Counted
<1>2. tail % Size \in 0..(Size - 1)
  BY <1>1, Division
<1>3. n <= seen - tail /\ n <= Size - (tail % Size)
  BY <1>1, <1>2, SizeType DEF Span
<1>4. opened = 2 * Opening /\ Len(file) = opened + tail /\ 2 * Len(taken) = 2 * Opening + head
  <2>1. state \in {"RUNNING", "STOPPING"}
    BY DEF Counted
  <2>2. ~(opened < 2 * Opening) /\ opened <= 2 * Opening
    BY <2>1 DEF Counted, Shape, TypeOK
  <2> QED BY <1>1, <2>1, <2>2, OpeningTyped DEF Counted
<1>5. ASSUME NEW i \in 1..n
      PROVE  (tail % Size) + i - 1 \in 0..(Size - 1) /\ ring[(tail % Size) + i - 1] = UnitAt(taken, Len(file) + i)
  <2>1. i - 1 \in Nat /\ (i - 1) + (tail % Size) < Size /\ tail + (i - 1) \in tail..(head - 1)
    BY <1>1, <1>2, <1>3, SizeType
  <2>2. (tail + (i - 1)) % Size = (tail % Size) + (i - 1)
    BY <1>1, <2>1, SlotAfter
  <2>3. ring[(tail + (i - 1)) % Size] = UnitAt(taken, 2 * Opening + (tail + (i - 1)) + 1)
    BY <2>1 DEF RingHolds
  <2>4. 2 * Opening + (tail + (i - 1)) + 1 = Len(file) + i
    BY <1>1, <1>4, OpeningTyped
  <2>5. (tail % Size) + (i - 1) = (tail % Size) + i - 1 /\ (tail % Size) + i - 1 \in 0..(Size - 1)
    BY <1>2, <2>1, SizeType
  <2> QED BY <2>2, <2>3, <2>4, <2>5
<1>6. c \in [1..n -> UnitSet]
  BY <1>5 DEF Shape
<1>7. c \in Seq(UnitSet) /\ Len(c) = n
  BY <1>6
<1>8. Len(file) + n <= 2 * Len(taken) /\ tail + n <= seen
  BY <1>1, <1>3, <1>4, OpeningTyped
<1> QED BY <1>5, <1>7, <1>8

-----------------------------------------------------------------------------
(* The steps.                                                                *)

\* A step that leaves the rows, their units and the file, and takes no unit but
\* from the ring's tail.
LEMMA Steady ==
    ASSUME Shape, RingHolds, FileHolds, UNCHANGED <<head, ring, taken, file, put>>,
           NEW t \in Nat, tail' = t, tail <= t, put # <<>> => state' = state
    PROVE  RingHolds' /\ FileHolds'
<1>1. tail \in Nat /\ head \in Nat /\ Size \in Nat /\ head' = head
  BY SizeType DEF Shape, TypeOK
<1>2. \A j \in t..(head - 1) : ring'[j % Size] = UnitAt(taken', 2 * Opening + j + 1)
  BY <1>1 DEF RingHolds, UnitAt
<1>3. put # <<>> => Size - (head - t) >= 2
  BY <1>1 DEF RingHolds, Room, Used
<1>4. RingHolds'
  BY <1>2, <1>3 DEF RingHolds, Room, Used
<1> QED BY <1>4 DEF FileHolds, UnitAt

LEMMA Counters ==
    ASSUME Shape
    PROVE  /\ {head, tail, seen, wrote, opened, stored, made, dropped, text_dropped, Len(file), Len(taken)} \subseteq Nat
           /\ tail <= head /\ head - tail <= Size
  BY DEF Shape, TypeOK, Used

LEMMA Bounds ==
    ASSUME Shape
    PROVE  /\ opened <= 2 * Opening /\ stored <= Len(file) /\ made <= MaxRows
           /\ due_in \in 0..Flush /\ sync_in \in 0..Sync /\ holdoff_in \in 0..Holdoff /\ stop_in \in 0..StopMax
           /\ passed \in 0..Passes
  BY DEF Shape, TypeOK

LEMMA StartInv == Inv /\ Start => Inv'
<1> SUFFICES ASSUME Inv, Start PROVE Inv'
  OBVIOUS
<1> USE DEF Inv
<1>1. /\ state = "NEVER" /\ state' = "RUNNING" /\ taken' = OpeningRows /\ to_host' \in BOOLEAN
      /\ UNCHANGED <<head, ring, dropped, text_dropped, put, made, in_flight, writer, fs, timers, passed, beside>>
  BY DEF Start
<1>2. taken = <<>> /\ head = 0 /\ tail = 0 /\ put = <<>> /\ file = <<>> /\ opened = 0 /\ pass = "OVER"
  BY <1>1 DEF Counted, Shape, TypeOK
<1>3. Shape'
  BY <1>1, OpeningTyped DEF Shape, TypeOK, writer, fs, timers, beside, Used
<1>4. Counted'
  BY <1>1, <1>2, OpeningTyped DEF Counted, writer, fs
<1>5. RingHolds' /\ FileHolds'
  BY <1>1, <1>2, OpeningTyped DEF RingHolds, FileHolds, writer, fs
<1> QED BY <1>3, <1>4, <1>5

\* The row's units go where the ring has nothing of its own.
LEMMA PutInv == \A kind \in Kinds : Inv /\ Put(kind) => Inv'
<1> SUFFICES ASSUME NEW kind \in Kinds, Inv, Put(kind) PROVE Inv'
  OBVIOUS
<1> USE DEF Inv
<1> DEFINE row == Row(kind, made)
<1>1. /\ state = "RUNNING" /\ put = <<>> /\ made < MaxRows /\ Room >= 2
      /\ ring' = [i \in 0..(Size - 1) |->
             IF i = head % Size THEN Unit(row, 1) ELSE IF i = (head + 1) % Size THEN Unit(row, 2) ELSE ring[i]]
      /\ put' = <<row>> /\ made' = made + 1
      /\ UNCHANGED <<head, to_host, dropped, text_dropped, in_flight, taken, state, writer, fs, timers, passed, beside>>
  BY DEF Put, Admitted, Fits
<1>2. head \in Nat /\ tail \in Nat /\ tail <= head /\ head - tail <= Size - 2 /\ made \in Nat
  BY <1>1, Counters, SizeType DEF Room, Used
<1>3. row \in RowSet /\ Unit(row, 1) \in UnitSet /\ Unit(row, 2) \in UnitSet
  BY <1>2 DEF Row, RowSet, Unit, UnitSet
<1>4. Shape'
  <2>1. ring' \in [0..(Size - 1) -> UnitSet]
    BY <1>1, <1>3 DEF Shape
  <2>2. put' \in Seq(RowSet) /\ Len(put') = 1
    BY <1>1, <1>3
  <2>3. TypeOK'
    <3>1. made' \in Nat /\ made' <= MaxRows
      BY <1>1, <1>2, BoundTypes
    <3> QED BY <1>1, <3>1 DEF Shape, TypeOK, writer, fs, timers, beside, Used
  <2> QED BY <1>1, <2>1, <2>2, <2>3 DEF Shape, fs
<1>5. Counted'
  BY <1>1 DEF Counted, writer, fs
<1>6. head % Size \in 0..(Size - 1) /\ (head + 1) % Size \in 0..(Size - 1) /\ head % Size # (head + 1) % Size
  <2>1. head + 1 \in Nat /\ head < head + 1 /\ (head + 1) - head < Size
    BY <1>2, SizeType
  <2> QED BY <1>2, <2>1, Division, SlotsApart
<1>7. \A j \in tail..(head - 1) : ring'[j % Size] = ring[j % Size]
  <2> SUFFICES ASSUME NEW j \in tail..(head - 1) PROVE ring'[j % Size] = ring[j % Size]
    OBVIOUS
  <2>1. j \in Nat /\ j < head /\ head - j < Size /\ head + 1 - j < Size
    BY <1>2, SizeType
  <2>2. j % Size # head % Size /\ j % Size # (head + 1) % Size /\ j % Size \in 0..(Size - 1)
    <3>1. head + 1 \in Nat /\ j < head + 1
      BY <1>2, <2>1
    <3>2. j % Size # head % Size
      BY <1>2, <2>1, SlotsApart
    <3>3. ASSUME NEW k \in Nat, k = head + 1 PROVE j % Size # k % Size
      <4>1. j < k /\ k - j < Size
        BY <1>2, <2>1, <3>3, SizeType
      <4> QED BY <2>1, <4>1, SlotsApart
    <3> QED BY <2>1, <3>1, <3>2, <3>3, Division
  <2> QED BY <1>1, <2>2
<1>8. RingHolds'
  <2>1. ring'[head % Size] = Unit(put'[1], 1) /\ ring'[(head + 1) % Size] = Unit(put'[1], 2)
    BY <1>1, <1>6
  <2>2. put'[1] \in [kind : Kinds, n : 0..MaxRows]
    <3>1. made \in 0..MaxRows
      BY <1>1, <1>2, BoundTypes
    <3> QED BY <1>1, <3>1 DEF Row
  <2> QED BY <1>1, <1>7, <2>1, <2>2 DEF RingHolds, UnitAt, Room, Used, writer
<1>9. FileHolds'
  BY <1>1 DEF FileHolds, UnitAt, fs
<1> QED BY <1>4, <1>5, <1>8, <1>9

\* The head moved on, the row's units are what was taken last.
LEMMA PublishInv == Inv /\ Publish => Inv'
<1> SUFFICES ASSUME Inv, Publish PROVE Inv'
  OBVIOUS
<1> USE DEF Inv
<1>1. /\ put # <<>> /\ head' = head + 2 /\ taken' = taken \o put /\ put' = <<>>
      /\ UNCHANGED <<ring, to_host, dropped, text_dropped, made, in_flight, state, writer, fs, timers, passed, beside>>
  BY DEF Publish
<1>2. /\ state = "RUNNING" /\ Room >= 2 /\ Len(put) = 1 /\ put \in Seq(RowSet) /\ taken \in Seq(RowSet)
      /\ ring[head % Size] = Unit(put[1], 1) /\ ring[(head + 1) % Size] = Unit(put[1], 2)
  BY <1>1 DEF RingHolds, Shape
<1>3. head \in Nat /\ tail \in Nat /\ tail <= head /\ head - tail <= Size - 2 /\ opened \in Nat /\ seen \in Nat
  BY <1>2, Counters, SizeType DEF Room, Used
<1>4. /\ taken' \in Seq(RowSet) /\ Len(taken') = Len(taken) + 1 /\ taken'[Len(taken) + 1] = put[1]
      /\ \A i \in 1..Len(taken) : taken'[i] = taken[i]
  <2>1. /\ taken' \in Seq(RowSet) /\ Len(taken') = Len(taken) + Len(put)
        /\ \A i \in 1..(Len(taken) + Len(put)) :
               taken'[i] = IF i <= Len(taken) THEN taken[i] ELSE put[i - Len(taken)]
    BY <1>1, <1>2, ConcatProperties
  <2>2. Len(taken) \in Nat /\ Len(put) = 1
    BY <1>2
  <2>3. Len(taken) + 1 \in 1..(Len(taken) + Len(put)) /\ ~(Len(taken) + 1 <= Len(taken))
        /\ (Len(taken) + 1) - Len(taken) = 1
    BY <2>2
  <2>4. \A i \in 1..Len(taken) : i \in 1..(Len(taken) + Len(put)) /\ i <= Len(taken)
    BY <2>2
  <2> QED BY <2>1, <2>2, <2>3, <2>4
<1>5. Len(taken) \in Nat /\ 2 * Len(taken) = 2 * Opening + head /\ Opening \in Nat
  BY <1>2, OpeningTyped DEF Counted
<1>6. Shape'
  <2>1. TypeOK'
    BY <1>1, <1>3, SizeType DEF Shape, TypeOK, writer, fs, timers, beside, Used
  <2> QED BY <1>1, <1>4, <2>1 DEF Shape, fs
<1>7. Counted'
  <2>0. head' = head + 2
    BY <1>1
  <2>1. \A n \in 1..Opening : taken'[n] = Row("OPENING", n)
    <3>1. \A n \in 1..Opening : taken[n] = Row("OPENING", n) /\ n \in 1..Len(taken)
      BY <1>2, <1>3, <1>5 DEF Counted
    <3> QED BY <1>4, <3>1
  <2>2. 2 * Len(taken') = 2 * Opening + head'
    <3>1. Len(taken') = Len(taken) + 1
      BY <1>4
    <3> QED BY <1>3, <1>5, <2>0, <3>1
  <2>3. pass \in {"SPAN", "TAIL"} => seen <= head'
    BY <1>1, <1>3 DEF Counted
  <2> QED BY <1>1, <1>2, <2>1, <2>2, <2>3 DEF Counted, writer, fs
<1>8. \A i \in 1..(2 * Len(taken)) : UnitAt(taken', i) = UnitAt(taken, i)
  BY <1>1, <1>2, UnitsKept
<1>9. RingHolds'
  <2>1. ASSUME NEW j \in tail..(head - 1) PROVE ring[j % Size] = UnitAt(taken', 2 * Opening + j + 1)
    <3>1. 2 * Opening + j + 1 \in 1..(2 * Len(taken))
      BY <1>3, <1>5
    <3> QED BY <1>8, <3>1 DEF RingHolds
  <2>2. UnitAt(taken', 2 * Opening + head + 1) = Unit(put[1], 1)
        /\ UnitAt(taken', 2 * Opening + (head + 1) + 1) = Unit(put[1], 2)
    <3>1. /\ (2 * Opening + head + 1 + 1) \div 2 = Len(taken) + 1 /\ (2 * Opening + head + 1) % 2 = 1
          /\ (2 * Opening + (head + 1) + 1 + 1) \div 2 = Len(taken) + 1 /\ (2 * Opening + (head + 1) + 1) % 2 = 0
      BY <1>3, <1>5
    <3> QED BY <1>4, <3>1 DEF UnitAt
  <2>3. \A j \in tail..(head' - 1) : j \in tail..(head - 1) \/ j = head \/ j = head + 1
    BY <1>1, <1>3
  <2>4. \A j \in tail..(head' - 1) : ring[j % Size] = UnitAt(taken', 2 * Opening + j + 1)
    BY <1>2, <2>1, <2>2, <2>3
  <2> QED BY <1>1, <2>4 DEF RingHolds, writer
<1>10. FileHolds'
  <2>1. Len(file) \in Nat /\ Len(file) <= 2 * Len(taken)
    BY DEF FileHolds, Shape
  <2>2. \A i \in 1..Len(file) : i \in 1..(2 * Len(taken))
    BY <1>5, <2>1
  <2>3. Len(file) <= 2 * Len(taken')
    BY <1>4, <1>5, <2>1
  <2> QED BY <1>1, <1>8, <2>2, <2>3 DEF FileHolds, fs
<1> QED BY <1>6, <1>7, <1>9, <1>10

\* The flight task's other steps.
LEMMA FlightInv == Inv /\ (FlightBegin \/ Stop \/ \E kind \in Kinds : Refused(kind)) => Inv'
<1> SUFFICES ASSUME Inv, FlightBegin \/ Stop \/ \E kind \in Kinds : Refused(kind) PROVE Inv'
  OBVIOUS
<1> USE DEF Inv
<1>1. CASE FlightBegin
  <2>1. Shape'
    BY <1>1 DEF FlightBegin, Shape, TypeOK, writer, fs, timers, beside, Used
  <2>2. Counted'
    BY <1>1 DEF FlightBegin, Counted, writer, fs
  <2>3. RingHolds' /\ FileHolds'
    BY <1>1, Steady, Counters DEF FlightBegin, writer, fs
  <2> QED BY <2>1, <2>2, <2>3
<1>2. CASE Stop
  <2>1. Shape'
    BY <1>2 DEF Stop, Shape, TypeOK, writer, fs, timers, beside, Used
  <2>2. Counted'
    BY <1>2 DEF Stop, Counted, writer, fs
  <2>3. RingHolds' /\ FileHolds'
    BY <1>2, Steady, Counters DEF Stop, writer, fs
  <2> QED BY <2>1, <2>2, <2>3
<1>3. ASSUME NEW kind \in Kinds, Refused(kind) PROVE Inv'
  <2>1. Shape'
    <3>1. dropped' \in Nat /\ text_dropped' \in Nat /\ made' \in Nat /\ made' <= MaxRows
      <4>1. made \in Nat /\ dropped \in Nat /\ text_dropped \in Nat
        BY Counters
      <4>2. made < MaxRows /\ made' = made + 1 /\ dropped' \in {dropped, dropped + 2}
            /\ text_dropped' \in {text_dropped, text_dropped + 2}
        BY <1>3 DEF Refused
      <4> QED BY <4>1, <4>2, BoundTypes
    <3> QED BY <1>3, <3>1 DEF Refused, Shape, TypeOK, writer, fs, timers, beside, Used
  <2>2. Counted'
    BY <1>3 DEF Refused, Counted, writer, fs
  <2>3. RingHolds' /\ FileHolds'
    BY <1>3, Steady, Counters DEF Refused, writer, fs
  <2> QED BY <2>1, <2>2, <2>3
<1> QED BY <1>1, <1>2, <1>3

-----------------------------------------------------------------------------
(* The storage task's steps, and time's.                                     *)

LEMMA PassedTyped ==
    ASSUME Shape, PassOver
    PROVE  pass' = "OVER" /\ passed' \in 0..Passes
<1>1. passed \in 0..Passes /\ TickPasses \in {1, Passes}
  BY DEF Shape, TypeOK, TickPasses
<1> QED BY <1>1, BoundTypes DEF PassOver

\* What a finished log leaves of the file.
LEMMA FinishTyped ==
    ASSUME Shape, Finish
    PROVE  /\ state' = "IDLE" /\ file_open' \in BOOLEAN /\ stop_seen' \in BOOLEAN
           /\ stored' \in Nat /\ stored' <= Len(file)
<1>1. stored \in Nat /\ Len(file) \in Nat /\ stored <= Len(file)
  BY DEF Shape, TypeOK
<1>2. stored' \in {Len(file), stored}
  BY DEF Finish
<1>3. stored' = Len(file) \/ stored' = stored
  BY <1>2
<1>4. stored' \in Nat /\ stored' <= Len(file)
  BY <1>1, <1>3
<1> QED BY <1>4 DEF Finish

LEMMA PassBeginsInv == Inv /\ PassBegins => Inv'
<1> SUFFICES ASSUME Inv, PassBegins PROVE Inv'
  OBVIOUS
<1> USE DEF Inv
<1>1. passed' \in 0..Passes
  BY DEF PassBegins, Continues, Shape, TypeOK
<1>2. due_in' \in 0..Flush /\ sync_in' \in 0..Sync /\ holdoff_in' \in 0..Holdoff /\ stop_in' \in 0..StopMax
  BY BoundTypes DEF PassBegins, Shape, TypeOK, timers
<1>3. /\ {holdoff, stop_seen, file_open, unsynced}' \subseteq BOOLEAN
      /\ stored' \in Nat /\ stored' <= Len(file)
  BY DEF PassBegins, HeldOff, Shape, TypeOK, fs
<1>4. Shape'
  BY <1>1, <1>2, <1>3 DEF PassBegins, Continues, Shape, TypeOK, flight, fs, beside, Used
<1>5. Counted'
  BY <1>1 DEF PassBegins, Continues, Counted, Shape, TypeOK, flight, fs, OpeningDone
<1>6. RingHolds' /\ FileHolds'
  BY Steady, Counters DEF PassBegins, Continues, flight, fs
<1> QED BY <1>4, <1>5, <1>6

LEMMA NotOpenedInv == Inv /\ NotOpened => Inv'
<1> SUFFICES ASSUME Inv, NotOpened PROVE Inv'
  OBVIOUS
<1> USE DEF Inv
<1>1. pass' = "OVER" /\ passed' \in 0..Passes
  BY PassedTyped DEF NotOpened
<1>2. due_in' \in 0..Flush /\ sync_in' \in 0..Sync /\ holdoff_in' \in 0..Holdoff /\ stop_in' \in 0..StopMax
  BY BoundTypes DEF NotOpened, Shape, TypeOK, timers
<1>3. /\ {holdoff, stop_seen, file_open, unsynced}' \subseteq BOOLEAN
      /\ stored' \in Nat /\ stored' <= Len(file)
  BY DEF NotOpened, HeldOff, Shape, TypeOK, fs
<1>4. Shape'
  BY <1>1, <1>2, <1>3 DEF NotOpened, Shape, TypeOK, flight, fs, beside, Used
<1>5. Counted'
  BY <1>1 DEF NotOpened, Counted, Shape, TypeOK, flight, fs, OpeningDone
<1>6. RingHolds' /\ FileHolds'
  BY Steady, Counters DEF NotOpened, flight, fs
<1> QED BY <1>4, <1>5, <1>6

LEMMA OpenFileInv == Inv /\ OpenFile => Inv'
<1> SUFFICES ASSUME Inv, OpenFile PROVE Inv'
  OBVIOUS
<1> USE DEF Inv
<1>1. passed' \in 0..Passes
  BY DEF OpenFile, Shape, TypeOK
<1>2. due_in' \in 0..Flush /\ sync_in' \in 0..Sync /\ holdoff_in' \in 0..Holdoff /\ stop_in' \in 0..StopMax
  BY BoundTypes DEF OpenFile, Shape, TypeOK, timers
<1>3. /\ {holdoff, stop_seen, file_open, unsynced}' \subseteq BOOLEAN
      /\ stored' \in Nat /\ stored' <= Len(file)
  BY DEF OpenFile, HeldOff, Shape, TypeOK, fs
<1>4. Shape'
  BY <1>1, <1>2, <1>3 DEF OpenFile, Shape, TypeOK, flight, fs, beside, Used
<1>5. Counted'
  BY <1>1 DEF OpenFile, Counted, Shape, TypeOK, flight, fs, OpeningDone
<1>6. RingHolds' /\ FileHolds'
  BY Steady, Counters DEF OpenFile, flight, fs
<1> QED BY <1>4, <1>5, <1>6

LEMMA NotDueInv == Inv /\ NotDue => Inv'
<1> SUFFICES ASSUME Inv, NotDue PROVE Inv'
  OBVIOUS
<1> USE DEF Inv
<1>1. pass' = "OVER" /\ passed' \in 0..Passes
  BY PassedTyped DEF NotDue
<1>0. /\ sync_in' \in {sync_in, Sync} /\ UNCHANGED <<due_in, holdoff_in, stop_in>>
      /\ stored' \in {stored, Len(file)} /\ unsynced' \in {unsynced, FALSE} /\ holdoff' = HeldOff
  BY DEF NotDue
<1>2. due_in' \in 0..Flush /\ sync_in' \in 0..Sync /\ holdoff_in' \in 0..Holdoff /\ stop_in' \in 0..StopMax
  BY <1>0, BoundTypes DEF Shape, TypeOK
<1>3. /\ {holdoff, stop_seen, file_open, unsynced}' \subseteq BOOLEAN
      /\ stored' \in Nat /\ stored' <= Len(file)
  <2>1. stored \in Nat /\ Len(file) \in Nat /\ stored <= Len(file) /\ {stop_seen, file_open, unsynced} \subseteq BOOLEAN
    BY DEF Shape, TypeOK
  <2>2. stored' \in Nat /\ stored' <= Len(file)
    BY <1>0, <2>1
  <2>3. UNCHANGED <<stop_seen, file_open>>
    BY DEF NotDue
  <2> QED BY <1>0, <2>1, <2>2, <2>3 DEF HeldOff
<1>4. Shape'
  BY <1>1, <1>2, <1>3 DEF NotDue, Shape, TypeOK, flight, fs, beside, Used
<1>5. Counted'
  BY <1>1 DEF NotDue, Counted, Shape, TypeOK, flight, fs, OpeningDone
<1>6. RingHolds' /\ FileHolds'
  BY Steady, Counters DEF NotDue, flight, fs
<1> QED BY <1>4, <1>5, <1>6

LEMMA WritesDueInv == Inv /\ WritesDue => Inv'
<1> SUFFICES ASSUME Inv, WritesDue PROVE Inv'
  OBVIOUS
<1> USE DEF Inv
<1>1. passed' \in 0..Passes
  BY DEF WritesDue, Continues, Shape, TypeOK
<1>2. due_in' \in 0..Flush /\ sync_in' \in 0..Sync /\ holdoff_in' \in 0..Holdoff /\ stop_in' \in 0..StopMax
  BY BoundTypes DEF WritesDue, Shape, TypeOK, timers
<1>3. /\ {holdoff, stop_seen, file_open, unsynced}' \subseteq BOOLEAN
      /\ stored' \in Nat /\ stored' <= Len(file)
  BY DEF WritesDue, HeldOff, Shape, TypeOK, fs
<1>4. Shape'
  BY <1>1, <1>2, <1>3 DEF WritesDue, Continues, Shape, TypeOK, flight, fs, beside, Used
<1>5. Counted'
  BY <1>1 DEF WritesDue, Continues, Counted, Shape, TypeOK, flight, fs, OpeningDone
<1>6. RingHolds' /\ FileHolds'
  BY Steady, Counters DEF WritesDue, Continues, flight, fs
<1> QED BY <1>4, <1>5, <1>6

LEMMA WriteFailsInv == Inv /\ WriteFails => Inv'
<1> SUFFICES ASSUME Inv, WriteFails PROVE Inv'
  OBVIOUS
<1> USE DEF Inv
<1>1. passed' \in 0..Passes
  BY DEF WriteFails, Continues, Shape, TypeOK
<1>2. due_in' \in 0..Flush /\ sync_in' \in 0..Sync /\ holdoff_in' \in 0..Holdoff /\ stop_in' \in 0..StopMax
  BY BoundTypes DEF WriteFails, Shape, TypeOK, timers
<1>3. /\ {holdoff, stop_seen, file_open, unsynced}' \subseteq BOOLEAN
      /\ stored' \in Nat /\ stored' <= Len(file)
  BY DEF WriteFails, HeldOff, Shape, TypeOK, fs
<1>4. Shape'
  BY <1>1, <1>2, <1>3 DEF WriteFails, Continues, Shape, TypeOK, flight, fs, beside, Used
<1>5. Counted'
  BY <1>1 DEF WriteFails, Continues, Counted, Shape, TypeOK, flight, fs, OpeningDone
<1>6. RingHolds' /\ FileHolds'
  BY Steady, Counters DEF WriteFails, Continues, flight, fs
<1> QED BY <1>4, <1>5, <1>6

LEMMA OpeningOverInv == Inv /\ OpeningOver => Inv'
<1> SUFFICES ASSUME Inv, OpeningOver PROVE Inv'
  OBVIOUS
<1> USE DEF Inv
<1>1. passed' \in 0..Passes
  BY DEF OpeningOver, Continues, Shape, TypeOK
<1>2. due_in' \in 0..Flush /\ sync_in' \in 0..Sync /\ holdoff_in' \in 0..Holdoff /\ stop_in' \in 0..StopMax
  BY BoundTypes DEF OpeningOver, Shape, TypeOK, timers
<1>3. /\ {holdoff, stop_seen, file_open, unsynced}' \subseteq BOOLEAN
      /\ stored' \in Nat /\ stored' <= Len(file)
  BY DEF OpeningOver, HeldOff, Shape, TypeOK, fs
<1>4. Shape'
  BY <1>1, <1>2, <1>3 DEF OpeningOver, Continues, Shape, TypeOK, flight, fs, beside, Used
<1>5. Counted'
  BY <1>1 DEF OpeningOver, Continues, Counted, Shape, TypeOK, flight, fs, OpeningDone
<1>6. RingHolds' /\ FileHolds'
  BY Steady, Counters DEF OpeningOver, Continues, flight, fs
<1> QED BY <1>4, <1>5, <1>6

LEMMA ReadHeadInv == Inv /\ ReadHead => Inv'
<1> SUFFICES ASSUME Inv, ReadHead PROVE Inv'
  OBVIOUS
<1> USE DEF Inv
<1>1. passed' \in 0..Passes
  BY DEF ReadHead, Continues, Shape, TypeOK
<1>2. due_in' \in 0..Flush /\ sync_in' \in 0..Sync /\ holdoff_in' \in 0..Holdoff /\ stop_in' \in 0..StopMax
  BY BoundTypes DEF ReadHead, Shape, TypeOK, timers
<1>3. /\ {holdoff, stop_seen, file_open, unsynced}' \subseteq BOOLEAN
      /\ stored' \in Nat /\ stored' <= Len(file)
  BY DEF ReadHead, HeldOff, Shape, TypeOK, fs
<1>4. Shape'
  BY <1>1, <1>2, <1>3 DEF ReadHead, Continues, Shape, TypeOK, flight, fs, beside, Used
<1>5. Counted'
  BY <1>1 DEF ReadHead, Continues, Counted, Shape, TypeOK, flight, fs, OpeningDone
<1>6. RingHolds' /\ FileHolds'
  BY Steady, Counters DEF ReadHead, Continues, flight, fs
<1> QED BY <1>4, <1>5, <1>6

LEMMA SpansOverInv == Inv /\ SpansOver => Inv'
<1> SUFFICES ASSUME Inv, SpansOver PROVE Inv'
  OBVIOUS
<1> USE DEF Inv
<1>1. passed' \in 0..Passes
  BY DEF SpansOver, Continues, Shape, TypeOK
<1>2. due_in' \in 0..Flush /\ sync_in' \in 0..Sync /\ holdoff_in' \in 0..Holdoff /\ stop_in' \in 0..StopMax
  BY BoundTypes DEF SpansOver, Shape, TypeOK, timers
<1>3. /\ {holdoff, stop_seen, file_open, unsynced}' \subseteq BOOLEAN
      /\ stored' \in Nat /\ stored' <= Len(file)
  BY DEF SpansOver, HeldOff, Shape, TypeOK, fs
<1>4. Shape'
  BY <1>1, <1>2, <1>3 DEF SpansOver, Continues, Shape, TypeOK, flight, fs, beside, Used
<1>5. Counted'
  BY <1>1 DEF SpansOver, Continues, Counted, Shape, TypeOK, flight, fs, OpeningDone
<1>6. RingHolds' /\ FileHolds'
  BY Steady, Counters DEF SpansOver, Continues, flight, fs
<1> QED BY <1>4, <1>5, <1>6

\* The ones that write, or let go of what the ring has.
LEMMA HostPassInv == Inv /\ HostPass => Inv'
<1> SUFFICES ASSUME Inv, HostPass PROVE Inv'
  OBVIOUS
<1> USE DEF Inv
<1> DEFINE c == SubSeq(Units(OpeningRows), opened + 1, 2 * Opening)
<1>1. /\ pass = "SEEN" /\ file' = file \o c /\ opened' = 2 * Opening /\ pass' = "HEAD" /\ passed' = passed
      /\ file_open' = TRUE /\ st \in {"RUNNING", "STOPPING"} /\ state \in {"RUNNING", "STOPPING"}
      /\ UNCHANGED <<flight, state, tail, st, seen, wrote, unsynced, stored, holdoff, stop_seen, timers, beside>>
  BY DEF HostPass, Continues, Counted
<1>2. opened \in Nat /\ opened <= 2 * Opening /\ tail \in Nat /\ Len(file) = opened + tail
  BY <1>1, Counters, Bounds DEF Counted
<1>0. opened < 2 * Opening => tail = 0
  BY <1>1 DEF Counted
<1>3. FileHolds' /\ file' \in Seq(UnitSet) /\ Len(file') = 2 * Opening + tail
  <2>1. CASE opened < 2 * Opening
    <3>1. PICK n \in Nat : opened + n = 2 * Opening
      <4>1. 2 * Opening - opened \in Nat /\ opened + (2 * Opening - opened) = 2 * Opening
        BY <1>2, OpeningTyped
      <4> QED BY <4>1
    <3>2. Len(file) = opened /\ tail = 0
      BY <1>2, <1>0, <2>1
    <3>3. c = SubSeq(Units(OpeningRows), opened + 1, opened + n) /\ opened + n <= 2 * Opening
      <4>1. opened + n <= 2 * Opening
        BY <1>2, <3>1, OpeningTyped
      <4> QED BY <3>1, <4>1
    <3>4. /\ c \in Seq(UnitSet) /\ Len(c) = n /\ Len(file) + Len(c) <= 2 * Len(taken)
          /\ \A i \in 1..Len(c) : c[i] = UnitAt(taken, Len(file) + i)
      BY <1>1, <3>2, <3>3, OpeningChunk
    <3>5. taken' = taken
      BY <1>1 DEF flight
    <3>6. FileHolds' /\ file' \in Seq(UnitSet) /\ Len(file') = Len(file) + n
      BY <1>1, <3>4, <3>5, FileGrows
    <3> QED BY <3>1, <3>2, <3>6, OpeningTyped
  <2>2. CASE opened = 2 * Opening
    <3>1. c = <<>>
      BY <1>2, <2>2, OpeningTyped, SubSeqEmpty
    <3>2. file' = file /\ file \in Seq(UnitSet)
      BY <1>1, <3>1, ConcatEmptySeq DEF Shape
    <3>3. taken' = taken
      BY <1>1 DEF flight
    <3>4. FileHolds'
      BY <3>2, <3>3 DEF FileHolds, UnitAt
    <3> QED BY <1>2, <2>2, <3>2, <3>4
  <2>3. opened < 2 * Opening \/ opened = 2 * Opening
    BY <1>2, OpeningTyped
  <2> QED BY <2>1, <2>2, <2>3
<1>4. Shape'
  <2>1. stored \in Nat /\ stored <= 2 * Opening + tail
    <3>1. stored \in Nat /\ stored <= Len(file)
      BY Counters, Bounds
    <3> QED BY <1>2, <3>1, OpeningTyped
  <2>2. opened' \in Nat /\ opened' <= 2 * Opening
    BY <1>1, OpeningTyped
  <2> QED BY <1>1, <1>3, <2>1, <2>2 DEF Shape, TypeOK, flight, timers, beside, Used
<1>5. Counted'
  BY <1>1, <1>3, OpeningTyped DEF Counted, flight
<1>6. RingHolds'
  BY <1>1 DEF RingHolds, UnitAt, Room, Used, flight
<1> QED BY <1>3, <1>4, <1>5, <1>6

LEMMA WriteOpeningInv == Inv /\ WriteOpening => Inv'
<1> SUFFICES ASSUME Inv, WriteOpening PROVE Inv'
  OBVIOUS
<1> USE DEF Inv
<1>1. /\ pass = "OPENING" /\ ~OpeningDone /\ unsynced' = TRUE /\ state \in {"RUNNING", "STOPPING"}
      /\ UNCHANGED <<flight, state, tail, st, seen, wrote, file_open, stored, holdoff, stop_seen, timers, beside>>
  BY DEF WriteOpening, Counted
<1>2. opened \in Nat /\ opened < 2 * Opening /\ tail \in Nat /\ Len(file) = opened /\ tail = 0
  <2>1. opened \in Nat /\ tail \in Nat /\ opened <= 2 * Opening
    BY Counters, Bounds
  <2>2. opened < 2 * Opening
    BY <1>1, <2>1, OpeningTyped DEF OpeningDone
  <2>3. tail = 0 /\ Len(file) = opened + tail + 0
    BY <1>1, <2>2 DEF Counted
  <2> QED BY <2>1, <2>2, <2>3
<1>3. PICK n \in 1..(2 - (opened % 2)) :
          /\ file' = file \o SubSeq(Units(OpeningRows), opened + 1, opened + n)
          /\ opened' = opened + n /\ pass' \in {"OPENING", "END"} /\ passed' = passed
  BY DEF WriteOpening, Continues
<1>4. n \in Nat /\ n > 0 /\ opened + n <= 2 * Opening
  BY <1>2, OpeningTyped
<1> DEFINE c == SubSeq(Units(OpeningRows), opened + 1, opened + n)
<1>5. /\ c \in Seq(UnitSet) /\ Len(c) = n /\ Len(file) + Len(c) <= 2 * Len(taken)
      /\ \A i \in 1..Len(c) : c[i] = UnitAt(taken, Len(file) + i)
  BY <1>1, <1>2, <1>4, OpeningChunk
<1>6. FileHolds' /\ file' \in Seq(UnitSet) /\ Len(file') = opened + n
  BY <1>1, <1>2, <1>3, <1>5, FileGrows DEF flight
<1>7. Shape'
  <2>1. stored \in Nat /\ stored <= opened + n
    <3>1. stored \in Nat /\ stored <= Len(file)
      BY Counters, Bounds
    <3> QED BY <1>2, <1>4, <3>1
  <2>2. opened' \in Nat /\ opened' <= 2 * Opening
    BY <1>2, <1>3, <1>4
  <2> QED BY <1>1, <1>3, <1>6, <2>1, <2>2 DEF Shape, TypeOK, flight, timers, beside, Used
<1>8. Counted'
  BY <1>1, <1>2, <1>3, <1>4, <1>6 DEF Counted, flight
<1>9. RingHolds'
  BY <1>1 DEF RingHolds, UnitAt, Room, Used, flight
<1> QED BY <1>6, <1>7, <1>8, <1>9

LEMMA WriteSpanInv == Inv /\ WriteSpan => Inv'
<1> SUFFICES ASSUME Inv, WriteSpan PROVE Inv'
  OBVIOUS
<1> USE DEF Inv
<1>1. /\ pass = "SPAN" /\ unsynced' = (unsynced \/ ~to_host) /\ pass' = "TAIL" /\ passed' = passed
      /\ state \in {"RUNNING", "STOPPING"}
      /\ UNCHANGED <<flight, state, tail, st, seen, file_open, stored, opened, holdoff, stop_seen, timers, beside>>
  BY DEF WriteSpan, Continues, Counted
<1>2. PICK n \in 1..Span : file' = file \o [i \in 1..n |-> ring[(tail % Size) + i - 1]] /\ wrote' = n
  BY DEF WriteSpan
<1>3. tail \in Nat /\ seen \in Nat /\ opened \in Nat /\ Len(file) \in Nat /\ Span \in Int
  <2>1. tail \in Nat /\ seen \in Nat /\ opened \in Nat /\ Len(file) \in Nat
    BY Counters
  <2>2. tail % Size \in 0..(Size - 1)
    BY <2>1, Division
  <2> QED BY <2>1, <2>2, SizeType DEF Span
<1>4. n \in Nat /\ n <= Span
  BY <1>3
<1> DEFINE c == [i \in 1..n |-> ring[(tail % Size) + i - 1]]
<1>5. /\ c \in Seq(UnitSet) /\ Len(c) = n /\ Len(file) + Len(c) <= 2 * Len(taken) /\ tail + n <= seen
      /\ \A i \in 1..Len(c) : c[i] = UnitAt(taken, Len(file) + i)
  BY <1>1, <1>4, SpanChunk
<1>6. FileHolds' /\ file' \in Seq(UnitSet) /\ Len(file') = Len(file) + n
  BY <1>1, <1>2, <1>5, FileGrows DEF flight
<1>7. Shape'
  <2>1. stored \in Nat /\ stored <= Len(file) + n
    <3>1. stored \in Nat /\ stored <= Len(file)
      BY Counters, Bounds
    <3> QED BY <1>3, <1>4, <3>1
  <2>2. unsynced' \in BOOLEAN
    BY <1>1
  <2> QED BY <1>1, <1>2, <1>4, <1>6, <2>1, <2>2 DEF Shape, TypeOK, flight, timers, beside, Used
<1>8. Counted'
  <2>1. Len(file) = opened + tail + 0
    BY <1>1 DEF Counted
  <2>3. Len(file') = opened + tail + n
    BY <1>3, <1>4, <1>6, <2>1
  <2> QED BY <1>1, <1>2, <1>5, <2>3 DEF Counted, flight
<1>9. RingHolds'
  BY <1>1 DEF RingHolds, UnitAt, Room, Used, flight
<1> QED BY <1>6, <1>7, <1>8, <1>9

LEMMA MoveTailInv == Inv /\ MoveTail => Inv'
<1> SUFFICES ASSUME Inv, MoveTail PROVE Inv'
  OBVIOUS
<1> USE DEF Inv
<1>1. /\ pass = "TAIL" /\ tail' = tail + wrote /\ pass' = "SPAN" /\ passed' = passed
      /\ state \in {"RUNNING", "STOPPING"}
      /\ UNCHANGED <<flight, state, st, seen, wrote, fs, holdoff, stop_seen, timers, beside>>
  BY DEF MoveTail, TailMoved, Continues, Counted
<1>2. /\ tail \in Nat /\ wrote \in Nat /\ seen \in Nat /\ head \in Nat /\ tail + wrote <= seen /\ seen <= head
      /\ head - tail <= Size
  BY <1>1, Counters DEF Counted
<1>3. PICK t \in Nat : t = tail + wrote /\ tail' = t /\ tail <= t /\ t <= seen /\ t <= head /\ head - t <= Size
  BY <1>1, <1>2, SizeType
<1>4. Shape'
  BY <1>1, <1>3 DEF Shape, TypeOK, flight, fs, timers, beside, Used
<1>5. Counted'
  <2>1. Len(file) = opened + tail + wrote /\ opened \in Nat
    BY <1>1, Counters DEF Counted
  <2>2. Len(file) = opened + t + 0
    BY <1>2, <1>3, <2>1
  <2> QED BY <1>1, <1>3, <2>2 DEF Counted, flight, fs
<1>6. RingHolds' /\ FileHolds'
  BY <1>1, <1>3, Steady DEF flight, fs
<1> QED BY <1>4, <1>5, <1>6

\* A log given up has no row to publish: the flight task is done with it.
LEMMA GiveUpInv == Inv /\ GiveUp => Inv'
<1> SUFFICES ASSUME Inv, GiveUp PROVE Inv'
  OBVIOUS
<1> USE DEF Inv
<1>1. /\ pass = "SEEN" /\ st = "STOPPING" /\ tail' = head /\ dropped' = dropped + Used
      /\ UNCHANGED <<head, ring, to_host, text_dropped, put, made, in_flight, taken, st, seen, wrote,
                     file, unsynced, opened, holdoff, timers, beside>>
  BY DEF GiveUp, Overdue
<1>2. pass' = "OVER" /\ passed' \in 0..Passes /\ state' = "IDLE" /\ file_open' \in BOOLEAN /\ stop_seen' \in BOOLEAN
      /\ stored' \in Nat /\ stored' <= Len(file)
  BY PassedTyped, FinishTyped DEF GiveUp
<1>3. state = "STOPPING" /\ put = <<>>
  BY <1>1 DEF Counted, RingHolds
<1>4. head \in Nat /\ tail \in Nat /\ tail <= head /\ dropped' \in Nat /\ head - head <= Size
  <2>1. head \in Nat /\ tail \in Nat /\ tail <= head /\ dropped \in Nat
    BY Counters
  <2>2. dropped' = dropped + (head - tail)
    BY <1>1 DEF Used
  <2> QED BY <2>1, <2>2, SizeType
<1>5. Shape'
  <2>1. TypeOK'
    BY <1>1, <1>2, <1>4 DEF Shape, TypeOK, timers, beside, Used
  <2> QED BY <1>1, <2>1 DEF Shape
<1>6. Counted'
  BY <1>1, <1>2, <1>3 DEF Counted
<1>7. RingHolds' /\ FileHolds'
  BY <1>1, <1>3, <1>4, Steady
<1> QED BY <1>5, <1>6, <1>7

LEMMA PassEndsInv == Inv /\ PassEnds => Inv'
<1> SUFFICES ASSUME Inv, PassEnds PROVE Inv'
  OBVIOUS
<1> USE DEF Inv
<1>1. /\ pass = "END" /\ due_in' \in {due_in, Flush}
      /\ UNCHANGED <<flight, tail, st, seen, wrote, file, unsynced, opened, holdoff, sync_in, holdoff_in, stop_in, beside>>
  BY DEF PassEnds
<1>2. pass' = "OVER" /\ passed' \in 0..Passes
  BY PassedTyped DEF PassEnds
<1>3. CASE AllOut
  <2>1. /\ state' = "IDLE" /\ file_open' \in BOOLEAN /\ stop_seen' \in BOOLEAN
        /\ stored' \in Nat /\ stored' <= Len(file)
    BY <1>3, FinishTyped DEF PassEnds
  <2>2. state = "STOPPING" /\ put = <<>>
    BY <1>1, <1>3 DEF AllOut, Counted, RingHolds
  <2>3. due_in' \in 0..Flush
    BY <1>1, BoundTypes, Bounds
  <2>4. Shape'
    BY <1>1, <1>2, <2>1, <2>3 DEF Shape, TypeOK, flight, beside, Used
  <2>5. Counted'
    BY <1>1, <1>2, <2>1, <2>2 DEF Counted, flight
  <2>6. RingHolds' /\ FileHolds'
    BY <1>1, <2>2, Steady, Counters DEF flight
  <2> QED BY <2>4, <2>5, <2>6
<1>4. CASE ~AllOut
  <2>1. UNCHANGED <<state, file_open, stop_seen, stored>>
    BY <1>4 DEF PassEnds
  <2>2. due_in' \in 0..Flush
    BY <1>1, BoundTypes, Bounds
  <2>3. Shape'
    BY <1>1, <1>2, <2>1, <2>2 DEF Shape, TypeOK, flight, beside, Used
  <2>4. Counted'
    BY <1>1, <1>2, <2>1 DEF Counted, flight
  <2>5. RingHolds' /\ FileHolds'
    BY <1>1, <2>1, Steady, Counters DEF flight
  <2> QED BY <2>3, <2>4, <2>5
<1> QED BY <1>3, <1>4

LEMMA TickInv == Inv /\ Tick => Inv'
<1> SUFFICES ASSUME Inv, Tick PROVE Inv'
  OBVIOUS
<1> USE DEF Inv
<1>1. due_in' \in 0..Flush /\ sync_in' \in 0..Sync /\ holdoff_in' \in 0..Holdoff /\ stop_in' \in 0..StopMax
  <2>1. \A m \in Nat : \A n \in 0..m : Less(n) \in 0..m
    BY DEF Less
  <2> QED BY <2>1, BoundTypes DEF Tick, Shape, TypeOK
<1>2. passed' \in 0..Passes
  BY BoundTypes DEF Tick
<1>3. Shape'
  BY <1>1, <1>2 DEF Tick, Shape, TypeOK, flight, writer, fs, Used
<1>4. Counted'
  BY DEF Tick, Counted, flight, writer, fs
<1>5. RingHolds' /\ FileHolds'
  BY Steady, Counters DEF Tick, flight, writer, fs
<1> QED BY <1>3, <1>4, <1>5

-----------------------------------------------------------------------------
LEMMA InitInv == Init => Inv
<1> SUFFICES ASSUME Init PROVE Inv
  OBVIOUS
<1>1. Shape
  <2>1. Unit(Row("NONE", 0), 0) \in UnitSet
    BY DEF Unit, Row, UnitSet, RowSet
  <2>2. ring \in [0..(Size - 1) -> UnitSet]
    BY <2>1 DEF Init
  <2>3. /\ head = 0 /\ tail = 0 /\ taken = <<>> /\ file = <<>> /\ put = <<>> /\ stored = 0 /\ opened = 0
        /\ made = 0 /\ dropped = 0 /\ text_dropped = 0 /\ seen = 0 /\ wrote = 0 /\ passed = 0
        /\ due_in = 0 /\ sync_in = 0 /\ holdoff_in = 0 /\ stop_in = 0 /\ state = "NEVER" /\ st = "NEVER" /\ pass = "OVER"
        /\ {well, to_host, in_flight, file_open, unsynced, holdoff, stop_seen} \subseteq BOOLEAN
    BY DEF Init
  <2>4. 0 \in 0..Flush /\ 0 \in 0..Sync /\ 0 \in 0..Holdoff /\ 0 \in 0..StopMax /\ 0 \in 0..Passes
        /\ 0 <= MaxRows /\ 0 <= 2 * Opening /\ 0 - 0 <= Size /\ 0 <= 0 /\ 0 \in Nat
    BY BoundTypes, SizeType, OpeningTyped
  <2>5. TypeOK
    BY <2>3, <2>4 DEF TypeOK, Used
  <2> QED BY <2>2, <2>3, <2>5 DEF Shape
<1>2. Counted
  BY DEF Init, Counted
<1>3. RingHolds /\ FileHolds
  BY DEF Init, RingHolds, FileHolds
<1> QED BY <1>1, <1>2, <1>3 DEF Inv

LEMMA NextInv == Inv /\ [Next]_vars => Inv'
<1> SUFFICES ASSUME Inv, [Next]_vars PROVE Inv'
  OBVIOUS
<1>1. CASE Start \/ Publish \/ FlightBegin \/ Stop \/ \E kind \in Kinds : Put(kind) \/ Refused(kind)
  BY <1>1, StartInv, PublishInv, FlightInv, PutInv
<1>2. CASE Pass
  BY <1>2, PassBeginsInv, GiveUpInv, HostPassInv, NotOpenedInv, OpenFileInv, NotDueInv, WritesDueInv, WriteOpeningInv,
     WriteFailsInv, OpeningOverInv, ReadHeadInv, WriteSpanInv, MoveTailInv, SpansOverInv, PassEndsInv DEF Pass
<1>3. CASE Tick
  BY <1>3, TickInv
<1>4. CASE UNCHANGED vars
  BY <1>4 DEF vars, flight, writer, fs, timers, beside, Inv, Shape, TypeOK, Used, Counted, RingHolds, Room, FileHolds,
     UnitAt
<1> QED BY <1>1, <1>2, <1>3, <1>4 DEF Next

LEMMA InvRing == Inv => RingInOrder
<1> SUFFICES ASSUME Inv PROVE TypeOK /\ FileInOrder
  BY DEF RingInOrder
<1>1. taken \in Seq(RowSet) /\ file \in Seq(UnitSet) /\ TypeOK
  BY DEF Inv, Shape
<1>2. /\ Units(taken) \in Seq(UnitSet) /\ Len(Units(taken)) = 2 * Len(taken)
      /\ \A i \in 1..(2 * Len(taken)) : Units(taken)[i] = UnitAt(taken, i)
  BY <1>1, UnitsOfRows
<1>3. Len(file) \in Nat /\ Len(taken) \in Nat /\ Len(file) <= 2 * Len(taken)
  BY <1>1 DEF Inv, FileHolds
<1>4. \A i \in 1..Len(file) : i \in 1..(2 * Len(taken)) /\ file[i] = Units(taken)[i]
  BY <1>2, <1>3 DEF Inv, FileHolds
<1>5. SubSeq(file, 1, Len(file)) = SubSeq(Units(taken), 1, Len(file))
  <2> DEFINE a == SubSeq(file, 1, Len(file))
             b == SubSeq(Units(taken), 1, Len(file))
  <2>1. \A i \in 1..Len(file) : file[i] \in UnitSet /\ Units(taken)[i] \in UnitSet
    BY <1>1, <1>2, <1>4
  <2>2. a \in Seq(UnitSet) /\ Len(a) = Len(file) /\ \A i \in 1..Len(file) : a[i] = file[i]
    BY <1>1, <1>3, <2>1, SubSeqFull
  <2>3. PICK l \in Nat : l = Len(file)
    BY <1>3
  <2>4. /\ b \in Seq(UnitSet) /\ Len(b) = IF 1 <= l THEN l - 1 + 1 ELSE 0
        /\ \A i \in 1..(l - 1 + 1) : b[i] = Units(taken)[1 + i - 1]
    BY <2>1, <2>3, SubSeqProperties
  <2>5. Len(b) = l /\ \A i \in 1..l : b[i] = Units(taken)[i]
    <3>1. l - 1 + 1 = l /\ \A i \in 1..l : 1 + i - 1 = i
      OBVIOUS
    <3> QED BY <2>4, <3>1
  <2>6. \A i \in 1..Len(a) : a[i] = b[i]
    BY <1>4, <2>2, <2>3, <2>5
  <2> QED BY <2>2, <2>3, <2>4, <2>5, <2>6, SeqEqual
<1> QED BY <1>1, <1>2, <1>3, <1>5 DEF FileInOrder, IsPrefix

\* For a ring of any size, writes cut short anywhere and rows without bound: the
\* file is the opening and the rows taken, whole and in order, cut anywhere.
THEOREM RingAlwaysInOrder == Spec => []RingInOrder
<1>1. Spec => []Inv
  BY InitInv, NextInv, PTL DEF Spec
<1> QED BY <1>1, InvRing, PTL

-----------------------------------------------------------------------------
(* FlightRecord's promise.  A row is taken when its head is out, and what a   *)
(* log closed before its end leaves is what is between the ring's two ends.   *)

Recording == {"RUNNING", "STOPPING"}

LEMMA SameRecord ==
    ASSUME UNCHANGED <<made, put, taken, file, dropped, text_dropped>>,
           (state' \in Recording) = (state \in Recording)
    PROVE  UNCHANGED Promised!record
  BY DEF Promised!record, LogRows, Recorded, Recording

LEMMA AfterOpening ==
    ASSUME NEW rows \in Seq(RowSet), Opening <= Len(rows)
    PROVE  LET logged == SubSeq(rows, Opening + 1, Len(rows))
           IN  /\ logged \in Seq(RowSet) /\ Len(logged) = Len(rows) - Opening
               /\ \A i \in 1..(Len(rows) - Opening) : logged[i] = rows[Opening + i]
<1> DEFINE logged == SubSeq(rows, Opening + 1, Len(rows))
<1>1. PICK l \in Nat : l = Len(rows)
  OBVIOUS
<1>2. Opening \in Nat /\ Opening <= l
  BY <1>1, OpeningTyped
<1>3. \A i \in (Opening + 1)..l : rows[i] \in RowSet
  BY <1>1, <1>2
<1>4. /\ logged \in Seq(RowSet) /\ Len(logged) = IF Opening + 1 <= l THEN l - (Opening + 1) + 1 ELSE 0
      /\ \A i \in 1..(l - (Opening + 1) + 1) : logged[i] = rows[(Opening + 1) + i - 1]
  BY <1>1, <1>2, <1>3, SubSeqProperties
<1>5. l - (Opening + 1) + 1 = l - Opening /\ \A i \in 1..(l - Opening) : (Opening + 1) + i - 1 = Opening + i
  BY <1>2
<1>6. Len(logged) = l - Opening
  BY <1>2, <1>4
<1> QED BY <1>1, <1>4, <1>5, <1>6

\* How much of the log the file and the ring have.
LEMMA RowsLogged ==
    ASSUME Inv, state # "NEVER"
    PROVE  /\ LogRows \in Seq(RowSet) /\ Len(LogRows) = Len(taken) - Opening /\ 2 * Len(LogRows) = head
           /\ Recorded \in Nat /\ Recorded <= Len(LogRows)
<1>1. taken \in Seq(RowSet) /\ file \in Seq(UnitSet) /\ 2 * Len(taken) = 2 * Opening + head
  BY DEF Inv, Shape, Counted
<1>2. head \in Nat /\ Opening \in Nat /\ Len(taken) \in Nat /\ Len(file) \in Nat
  BY <1>1, Counters, OpeningTyped DEF Inv
<1>3. Opening <= Len(taken)
  BY <1>1, <1>2
<1>4. LogRows \in Seq(RowSet) /\ Len(LogRows) = Len(taken) - Opening
  BY <1>1, <1>3, AfterOpening DEF LogRows
<1>5. Len(file) <= 2 * Len(taken)
  BY DEF Inv, FileHolds
<1>6. Recorded \in Nat /\ Recorded <= Len(taken) - Opening
  BY <1>2, <1>3, <1>5 DEF Recorded
<1> QED BY <1>1, <1>2, <1>4, <1>6

\* A row published is the log's next.
LEMMA LogRowsGrow ==
    ASSUME Inv, Publish
    PROVE  LogRows' = Append(LogRows, put[1])
<1>1. /\ state = "RUNNING" /\ Len(put) = 1 /\ put \in Seq(RowSet) /\ taken \in Seq(RowSet) /\ taken' = taken \o put
  BY DEF Publish, Inv, RingHolds, Shape
<1>2. head \in Nat /\ Opening \in Nat /\ Len(taken) \in Nat /\ 2 * Len(taken) = 2 * Opening + head
  BY <1>1, Counters, OpeningTyped DEF Inv, Counted
<1>3. Opening <= Len(taken)
  BY <1>2
<1>4. /\ taken' \in Seq(RowSet) /\ Len(taken') = Len(taken) + 1 /\ taken'[Len(taken) + 1] = put[1]
      /\ \A i \in 1..Len(taken) : taken'[i] = taken[i]
  <2>1. /\ taken' \in Seq(RowSet) /\ Len(taken') = Len(taken) + Len(put)
        /\ \A i \in 1..(Len(taken) + Len(put)) :
               taken'[i] = IF i <= Len(taken) THEN taken[i] ELSE put[i - Len(taken)]
    BY <1>1, ConcatProperties
  <2>2. Len(taken) + 1 \in 1..(Len(taken) + Len(put)) /\ ~(Len(taken) + 1 <= Len(taken))
        /\ (Len(taken) + 1) - Len(taken) = 1
    BY <1>1, <1>2
  <2>3. \A i \in 1..Len(taken) : i \in 1..(Len(taken) + Len(put)) /\ i <= Len(taken)
    BY <1>1, <1>2
  <2> QED BY <1>1, <2>1, <2>2, <2>3
<1>5. PICK l \in Nat : l = Len(taken) - Opening
  BY <1>2, <1>3
<1>6. /\ LogRows \in Seq(RowSet) /\ Len(LogRows) = l
      /\ \A i \in 1..l : LogRows[i] = taken[Opening + i]
  BY <1>1, <1>3, <1>5, AfterOpening DEF LogRows
<1>7. Opening <= Len(taken') /\ Len(taken') - Opening = l + 1
  BY <1>2, <1>3, <1>4, <1>5
<1>8. /\ LogRows' \in Seq(RowSet) /\ Len(LogRows') = l + 1
      /\ \A i \in 1..(l + 1) : LogRows'[i] = taken'[Opening + i]
  <2>1. ASSUME NEW rows \in Seq(RowSet), Opening <= Len(rows), Len(rows) - Opening = l + 1
        PROVE  LET logged == SubSeq(rows, Opening + 1, Len(rows))
               IN  /\ logged \in Seq(RowSet) /\ Len(logged) = l + 1
                   /\ \A i \in 1..(l + 1) : logged[i] = rows[Opening + i]
    BY <2>1, AfterOpening
  <2> QED BY <1>4, <1>7, <2>1 DEF LogRows
<1> DEFINE grown == Append(LogRows, put[1])
<1>9. /\ grown \in Seq(RowSet) /\ Len(grown) = l + 1 /\ grown[l + 1] = put[1]
      /\ \A i \in 1..l : grown[i] = LogRows[i]
  <2>1. put[1] \in RowSet
    <3>1. \A rows \in Seq(RowSet) : Len(rows) = 1 => rows[1] \in RowSet
      OBVIOUS
    <3> QED BY <1>1, <3>1
  <2>2. ASSUME NEW rows \in Seq(RowSet), NEW row \in RowSet
        PROVE  /\ Append(rows, row) \in Seq(RowSet) /\ Len(Append(rows, row)) = Len(rows) + 1
               /\ Append(rows, row)[Len(rows) + 1] = row
               /\ \A i \in 1..Len(rows) : Append(rows, row)[i] = rows[i]
    BY AppendProperties
  <2>3. /\ grown \in Seq(RowSet) /\ Len(grown) = Len(LogRows) + 1 /\ grown[Len(LogRows) + 1] = put[1]
        /\ \A i \in 1..Len(LogRows) : grown[i] = LogRows[i]
    BY <1>6, <2>1, <2>2, Zenon
  <2> HIDE DEF grown
  <2> QED BY <1>6, <2>3
<1> HIDE DEF grown
<1>10. \A i \in 1..(l + 1) : LogRows'[i] = grown[i]
  <2> SUFFICES ASSUME NEW i \in 1..(l + 1) PROVE LogRows'[i] = grown[i]
    OBVIOUS
  <2>1. CASE i <= l
    <3>1. Opening + i \in 1..Len(taken) /\ i \in 1..l
      BY <1>2, <1>3, <1>5, <2>1
    <3> QED BY <1>4, <1>6, <1>8, <1>9, <2>1, <3>1
  <2>2. CASE i = l + 1
    <3>1. Opening + i = Len(taken) + 1
      BY <1>2, <1>3, <1>5, <2>2
    <3> QED BY <1>4, <1>8, <1>9, <2>2, <3>1
  <2> QED BY <2>1, <2>2
<1>11. LogRows' = grown
  BY <1>8, <1>9, <1>10, SeqEqual
<1> QED BY <1>11 DEF grown

LEMMA StartOpens == Inv /\ Start => Promised!Open
<1> SUFFICES ASSUME Inv, Start PROVE Promised!Open
  OBVIOUS
<1>1. /\ state = "NEVER" /\ state' = "RUNNING" /\ taken' = OpeningRows
      /\ UNCHANGED <<dropped, text_dropped, put, made, file>>
  BY DEF Start, fs
<1>2. taken = <<>> /\ file = <<>>
  BY <1>1 DEF Inv, Counted
<1>3. LogRows = <<>> /\ LogRows' = <<>>
  BY <1>1, <1>2, OpeningTyped, SubSeqEmpty DEF LogRows
<1>4. Recorded = 0 /\ Recorded' = Recorded
  <2>1. Len(file) = 0 /\ Len(file') = 0 /\ ~(0 \div 2 > Opening)
    BY <1>1, <1>2, OpeningTyped
  <2> QED BY <2>1 DEF Recorded
<1> QED BY <1>1, <1>3, <1>4 DEF Promised!Open

LEMMA PutUnseen == \A kind \in Kinds : Inv /\ Put(kind) => UNCHANGED Promised!record
<1> SUFFICES ASSUME NEW kind \in Kinds, Inv, Put(kind) PROVE UNCHANGED Promised!record
  OBVIOUS
<1>1. put = <<>> /\ put' = <<Row(kind, made)>> /\ made' = made + 1
      /\ UNCHANGED <<state, taken, file, dropped, text_dropped>>
  BY DEF Put, fs
<1>2. made \in Nat /\ Len(put) = 0 /\ Len(put') = 1
  BY <1>1, Counters DEF Inv
<1>3. made' - Len(put') = made - Len(put)
  BY <1>1, <1>2
<1> QED BY <1>1, <1>3 DEF Promised!record, LogRows, Recorded

LEMMA PublishTakes == Inv /\ Publish => \E row \in [kind : Kinds, n : 0..MaxRows] : Promised!Take(row)
<1> SUFFICES ASSUME Inv, Publish PROVE \E row \in [kind : Kinds, n : 0..MaxRows] : Promised!Take(row)
  OBVIOUS
<1>1. /\ state = "RUNNING" /\ put[1] \in [kind : Kinds, n : 0..MaxRows] /\ Len(put) = 1 /\ put' = <<>>
      /\ UNCHANGED <<state, made, file, dropped, text_dropped>>
  BY DEF Publish, Inv, RingHolds, Shape, fs
<1>2. made' - Len(put') = (made - Len(put)) + 1
  <2>1. made \in Nat /\ Len(put') = 0
    BY <1>1, Counters DEF Inv
  <2> QED BY <1>1, <2>1
<1>3. Promised!Take(put[1])
  BY <1>1, <1>2, LogRowsGrow DEF Promised!Take, Recorded
<1> QED BY <1>1, <1>3

LEMMA RefusedLoses == \A kind \in Kinds : Inv /\ Refused(kind) => Promised!Lose
<1> SUFFICES ASSUME NEW kind \in Kinds, Inv, Refused(kind) PROVE Promised!Lose
  OBVIOUS
<1>1. /\ state = "RUNNING" /\ put = <<>> /\ made' = made + 1
      /\ \/ dropped' = dropped + 2 /\ text_dropped' = text_dropped
         \/ dropped' = dropped /\ text_dropped' = text_dropped + 2
      /\ UNCHANGED <<state, put, taken, file>>
  BY DEF Refused, fs
<1>2. made \in Nat /\ dropped \in Nat /\ text_dropped \in Nat /\ Len(put) = 0
  BY <1>1, Counters DEF Inv
<1>3. made' - Len(put') = (made - Len(put)) + 1 /\ dropped' + text_dropped' = (dropped + text_dropped) + 2
  BY <1>1, <1>2
<1> QED BY <1>1, <1>3 DEF Promised!Lose, LogRows, Recorded

\* What the file grows by is the record's, or part of a row yet.
LEMMA WriteRecords ==
    ASSUME Inv, FileHolds', state \in Recording, UNCHANGED <<made, put, taken, dropped, text_dropped, state>>,
           Len(file') \in Nat, Len(file) <= Len(file')
    PROVE  Promised!Record \/ UNCHANGED Promised!record
<1>1. state # "NEVER" /\ LogRows' = LogRows
  BY DEF Recording, LogRows
<1>2. Len(LogRows) = Len(taken) - Opening /\ Recorded \in Nat
  BY <1>1, RowsLogged
<1>3. Len(taken) \in Nat /\ Len(file) \in Nat /\ Opening \in Nat /\ Opening <= Len(taken)
  <2>1. 2 * Len(taken) = 2 * Opening + head /\ head \in Nat /\ Len(taken) \in Nat /\ Len(file) \in Nat
    BY <1>1, Counters DEF Inv, Counted
  <2> QED BY <2>1, OpeningTyped
<1>4. Len(file') <= 2 * Len(taken)
  BY DEF FileHolds
<1>5. Recorded' \in Recorded..Len(LogRows)
  <2>1. Len(file) \div 2 <= Len(file') \div 2 /\ Len(file') \div 2 <= Len(taken)
        /\ Len(file) \div 2 \in Nat /\ Len(file') \div 2 \in Nat
    BY <1>3, <1>4
  <2> QED BY <1>2, <1>3, <2>1 DEF Recorded
<1>6. CASE Recorded' = Recorded
  BY <1>1, <1>6 DEF Promised!record
<1>7. CASE Recorded' # Recorded
  <2>1. Recorded' \in (Recorded + 1)..Len(LogRows)
    BY <1>2, <1>3, <1>5, <1>7
  <2> QED BY <1>1, <2>1 DEF Promised!Record, Recording
<1> QED BY <1>6, <1>7

\* Given up, the log has counted what the file has not: of a row cut short, the
\* one unit that is missing.
LEMMA GiveUpCounts == Inv /\ GiveUp => Promised!Close
<1> SUFFICES ASSUME Inv, GiveUp PROVE Promised!Close
  OBVIOUS
<1>1. /\ pass = "SEEN" /\ st = "STOPPING" /\ dropped' = dropped + (head - tail) /\ state' = "IDLE"
      /\ UNCHANGED <<made, put, taken, file, text_dropped>>
  BY DEF GiveUp, Overdue, Used, Finish
<1>2. state = "STOPPING"
  BY <1>1 DEF Inv, Counted
<1>3. /\ head \in Nat /\ tail \in Nat /\ tail <= head /\ opened \in Nat /\ Opening \in Nat /\ opened <= 2 * Opening
      /\ dropped \in Nat /\ text_dropped \in Nat /\ Len(file) \in Nat
  BY Counters, Bounds, OpeningTyped DEF Inv
<1>4. Len(file) = opened + tail + 0 /\ (opened < 2 * Opening => tail = 0)
  BY <1>1, <1>2 DEF Inv, Counted
<1>5. 2 * Len(LogRows) = head /\ Len(LogRows) \in Nat /\ Recorded \in Nat /\ Recorded <= Len(LogRows)
  BY <1>2, RowsLogged
<1>6. head - tail \in {2 * (Len(LogRows) - Recorded) - 1, 2 * (Len(LogRows) - Recorded)}
  <2>1. CASE opened < 2 * Opening
    <3>1. ~(Len(file) \div 2 > Opening)
      BY <1>3, <1>4, <2>1
    <3>2. Recorded = 0 /\ tail = 0
      BY <1>4, <2>1, <3>1 DEF Recorded
    <3> QED BY <1>3, <1>5, <3>2
  <2>2. CASE opened = 2 * Opening
    <3>1. Len(file) \div 2 = Opening + tail \div 2 /\ tail \div 2 \in Nat
          /\ (tail = 2 * (tail \div 2) \/ tail = 2 * (tail \div 2) + 1)
      BY <1>3, <1>4, <2>2
    <3>2. Recorded = tail \div 2
      BY <1>3, <3>1 DEF Recorded
    <3> QED BY <1>3, <1>5, <3>1, <3>2
  <2> QED BY <1>3, <2>1, <2>2
<1>7. (dropped' + text_dropped') - (dropped + text_dropped) = head - tail
  BY <1>1, <1>3
<1>8. UNCHANGED <<made - Len(put), LogRows, Recorded>> /\ ~(state' \in {"RUNNING", "STOPPING"})
  BY <1>1 DEF LogRows, Recorded
<1>9. CASE Recorded = Len(LogRows)
  <2>1. head - tail = 0
    BY <1>3, <1>5, <1>6, <1>9
  <2>2. dropped' + text_dropped' = dropped + text_dropped
    BY <1>1, <1>3, <2>1
  <2> QED BY <1>2, <1>8, <1>9, <2>2 DEF Promised!Close
<1>10. CASE Recorded < Len(LogRows)
  <2>1. Len(LogRows) - Recorded > 0
    BY <1>5, <1>10
  <2> QED BY <1>2, <1>6, <1>7, <1>8, <2>1 DEF Promised!Close
<1> QED BY <1>5, <1>9, <1>10

\* And a log that ends by itself has all of its rows in the file.
LEMMA PassEndsWhole == Inv /\ PassEnds => Promised!Close \/ UNCHANGED Promised!record
<1> SUFFICES ASSUME Inv, PassEnds PROVE Promised!Close \/ UNCHANGED Promised!record
  OBVIOUS
<1>1. pass = "END" /\ UNCHANGED <<made, put, taken, file, dropped, text_dropped>>
  BY DEF PassEnds, flight
<1>2. CASE ~AllOut
  BY <1>1, <1>2, SameRecord DEF PassEnds
<1>3. CASE AllOut
  <2>1. st = "STOPPING" /\ tail = head /\ opened = 2 * Opening /\ state' = "IDLE"
    BY <1>3 DEF AllOut, OpeningDone, PassEnds, Finish
  <2>2. state = "STOPPING" /\ Len(file) = opened + tail + 0
    BY <1>1, <2>1 DEF Inv, Counted
  <2>3. 2 * Len(LogRows) = head /\ Len(LogRows) \in Nat
    BY <2>2, RowsLogged
  <2>4. head \in Nat /\ Opening \in Nat
    BY Counters, OpeningTyped DEF Inv
  <2>5. Len(file) \div 2 = Opening + Len(LogRows)
    BY <2>1, <2>2, <2>3, <2>4
  <2>6. Recorded = Len(LogRows)
    BY <2>3, <2>4, <2>5 DEF Recorded
  <2>7. UNCHANGED <<made - Len(put), LogRows, Recorded, dropped + text_dropped>>
    BY <1>1 DEF LogRows, Recorded
  <2> QED BY <2>1, <2>2, <2>6, <2>7 DEF Promised!Close
<1> QED BY <1>2, <1>3

LEMMA PassPromised == Inv /\ Pass => Promised!Step \/ UNCHANGED Promised!record
<1> SUFFICES ASSUME Inv, Pass PROVE Promised!Step \/ UNCHANGED Promised!record
  OBVIOUS
<1>1. CASE GiveUp
  BY <1>1, GiveUpCounts DEF Promised!Step
<1>2. CASE PassEnds
  BY <1>2, PassEndsWhole DEF Promised!Step
<1>3. ASSUME HostPass \/ WriteOpening \/ WriteSpan PROVE Promised!Record \/ UNCHANGED Promised!record
  <2>1. Inv'
    BY <1>3, HostPassInv, WriteOpeningInv, WriteSpanInv
  <2>2. UNCHANGED <<made, put, taken, dropped, text_dropped, state>>
    <3>1. CASE HostPass
      BY <3>1 DEF HostPass, flight
    <3>2. CASE WriteOpening
      BY <3>2 DEF WriteOpening, flight
    <3>3. CASE WriteSpan
      BY <3>3 DEF WriteSpan, flight
    <3> QED BY <1>3, <3>1, <3>2, <3>3
  <2>3. state \in Recording
    <3>1. pass # "OVER"
      BY <1>3 DEF HostPass, WriteOpening, WriteSpan
    <3> QED BY <3>1 DEF Inv, Counted, Recording
  <2>4. file' \in Seq(UnitSet) /\ file \in Seq(UnitSet) /\ FileHolds'
    BY <2>1 DEF Inv, Shape
  <2>5. Len(file') \in Nat /\ Len(file) <= Len(file')
    <3>1. CASE HostPass
      BY <2>4, <3>1 DEF HostPass
    <3>2. CASE WriteOpening
      BY <2>4, <3>2 DEF WriteOpening
    <3>3. CASE WriteSpan
      BY <2>4, <3>3 DEF WriteSpan
    <3> QED BY <1>3, <3>1, <3>2, <3>3
  <2> QED BY <2>2, <2>3, <2>4, <2>5, WriteRecords
<1>4. ASSUME PassBegins \/ NotOpened \/ OpenFile \/ NotDue \/ WritesDue \/ WriteFails \/ OpeningOver \/ ReadHead
             \/ MoveTail \/ SpansOver
      PROVE  UNCHANGED Promised!record
  <2>1. UNCHANGED <<made, put, taken, file, dropped, text_dropped, state>>
    BY <1>4 DEF PassBegins, NotOpened, OpenFile, NotDue, WritesDue, WriteFails, OpeningOver, ReadHead, MoveTail, SpansOver,
       flight, fs
  <2> QED BY <2>1, SameRecord
<1> QED BY <1>1, <1>2, <1>3, <1>4 DEF Pass, Promised!Step

LEMMA PromisedStep == Inv /\ [Next]_vars => [Promised!Step]_(Promised!record)
<1> SUFFICES ASSUME Inv, [Next]_vars PROVE Promised!Step \/ UNCHANGED Promised!record
  OBVIOUS
<1>1. CASE Start
  BY <1>1, StartOpens DEF Promised!Step
<1>2. CASE Publish
  BY <1>2, PublishTakes DEF Promised!Step
<1>3. ASSUME NEW kind \in Kinds, Put(kind) \/ Refused(kind) PROVE Promised!Step \/ UNCHANGED Promised!record
  BY <1>3, PutUnseen, RefusedLoses DEF Promised!Step
<1>4. CASE Pass
  BY <1>4, PassPromised
<1>5. ASSUME FlightBegin \/ Tick \/ UNCHANGED vars PROVE UNCHANGED Promised!record
  BY <1>5, SameRecord DEF FlightBegin, Tick, vars, flight, fs
<1>6. ASSUME Stop PROVE UNCHANGED Promised!record
  BY <1>6, SameRecord DEF Stop, fs, Recording
<1> QED BY <1>1, <1>2, <1>3, <1>4, <1>5, <1>6 DEF Next

LEMMA PromisedInit == Init => Promised!Begins
<1> SUFFICES ASSUME Init PROVE Promised!Begins
  OBVIOUS
<1>1. taken = <<>> /\ file = <<>> /\ put = <<>> /\ made = 0 /\ dropped = 0 /\ text_dropped = 0 /\ state = "NEVER"
  BY DEF Init
<1>2. LogRows = <<>>
  BY <1>1, OpeningTyped, SubSeqEmpty DEF LogRows
<1>3. Recorded = 0
  <2>1. Len(file) = 0
    BY <1>1
  <2>2. 0 \div 2 = 0 /\ ~(0 > Opening)
    BY OpeningTyped
  <2> QED BY <2>1, <2>2 DEF Recorded
<1>4. made - Len(put) = 0 /\ dropped + text_dropped = 0
  <2>1. Len(put) = 0 /\ made = 0 /\ dropped = 0 /\ text_dropped = 0
    BY <1>1
  <2> QED BY <2>1
<1>5. (state \in {"RUNNING", "STOPPING"}) = FALSE
  <2>1. ~(state \in {"RUNNING", "STOPPING"})
    BY <1>1
  <2> QED BY <2>1
<1> QED BY <1>2, <1>3, <1>4, <1>5 DEF Promised!Begins

\* The log implements FlightRecord: rows reach the file in the order they were made,
\* each once, and a log is closed with all of them or with the missing ones counted.
THEOREM PromiseKept == Spec => KeepsPromise
<1>1. Spec => []Inv
  BY InitInv, NextInv, PTL DEF Spec
<1> QED BY <1>1, PromisedInit, PromisedStep, PTL DEF Spec, KeepsPromise, Promised!Promise

-----------------------------------------------------------------------------
(* RowsKept.  Rows wait for a write, WriteIn ticks at most, and what is        *)
(* written for a sync.  A pass with a write in it does not sync, so a sync     *)
(* that is due is one of the tick's other passes': Paced says they have none.  *)

\* A flush is not followed by another in the tick: it takes the ring's Watermark in
\* LOG_FLUSH_MS, where a sample comes each period and text stops at its ceiling.
Paced == pass = "SEEN" /\ state = "RUNNING" /\ file_open /\ ~holdoff /\ due_in = Flush => ~Full

WriteWait == IF Holdoff > Flush THEN Holdoff ELSE Flush
SyncWait == IF Sync > 1 THEN Sync ELSE 1

\* The ticks until what waits is written, unless the ring is full before.
WriteIn == IF holdoff /\ holdoff_in > due_in THEN holdoff_in ELSE due_in

\* What was taken more than n ticks ago is written, and kept.
Written(n) == \A i \in 1..Loss : i > n => 2 * past[i] <= Len(file)
Stored(n) == \A i \in 1..Loss : i > n => 2 * past[i] <= stored

PastHolds == past \in Seq(Nat) /\ Len(past) = Loss /\ \A i \in 1..Loss : past[i] <= Len(taken)

\* The file is opened in the tick the flight begins in.
Unopened ==
    /\ pass \in {"OVER", "SEEN"} /\ file = <<>>
    /\ \A i \in 2..Loss : past[i] = 0
    /\ past[1] > 0 => in_flight /\ passed = 0

SyncPending ==
    /\ Stored(WriteWait + SyncWait - sync_in)
    /\ sync_in = 0 /\ passed > 0 =>
           Stored(WriteWait + SyncWait - 1) \/ (passed = 1 /\ due_in = Flush /\ ~holdoff)

\* Between passes' writes, and within them.
Between ==
    /\ Written(1 + WriteWait - WriteIn)
    /\ passed > 0 => WriteIn > 0
    /\ Sync > 0 /\ sync_in = Sync => WriteIn > 0
    /\ IF unsynced THEN SyncPending ELSE stored = Len(file)

Within ==
    /\ ~holdoff
    /\ ~unsynced => stored = Len(file)
    /\ Stored(WriteWait + SyncWait - sync_in)
    /\ sync_in = 0 /\ passed > 0 => Stored(WriteWait + SyncWait - 1)
    /\ pass \in {"SPAN", "TAIL"} => \A i \in 1..Loss : 2 * past[i] <= 2 * Opening + seen
    /\ pass = "END" => Written(0)

Ours == state = "RUNNING" /\ ~to_host /\ well

Kept ==
    /\ PastHolds
    /\ state = "NEVER" => ~file_open /\ \A i \in 1..Loss : past[i] = 0
    /\ Ours /\ ~file_open => Unopened
    /\ Ours /\ file_open => IF pass \in {"OVER", "SEEN"} THEN Between ELSE Within

LEMMA Waits ==
    /\ Loss \in Nat /\ WriteWait \in Nat /\ SyncWait \in Nat
    /\ Holdoff <= WriteWait /\ Flush <= WriteWait /\ Sync <= SyncWait /\ 1 <= SyncWait
    /\ WriteWait + SyncWait < Loss /\ Flush > 0 /\ Passes > 1
    /\ WriteWait \in {Holdoff, Flush}
<1>1. Holdoff \in Nat /\ Flush \in Nat /\ Sync \in Nat /\ Loss \in Nat
  BY FlightLogConstants
<1>2. WriteWait \in {Holdoff, Flush} /\ SyncWait \in {Sync, 1}
  BY DEF WriteWait, SyncWait
<1>3. WriteWait + SyncWait < Loss
  <2>1. Loss > WriteWait + SyncWait
    BY <1>2, FlightLogTimes
  <2> QED BY <1>1, <1>2, <2>1
<1> QED BY <1>1, <1>2, <1>3, FlightLogTimes DEF WriteWait, SyncWait

LEMMA WriteInTyped ==
    ASSUME Shape
    PROVE  WriteIn \in 0..WriteWait /\ due_in \in 0..WriteIn /\ sync_in \in 0..SyncWait
  BY Bounds, Waits, BoundTypes DEF WriteIn

LEMMA PastTyped ==
    ASSUME PastHolds
    PROVE  \A i \in 1..Loss : past[i] \in Nat
  BY DEF PastHolds

\* What is written or kept so far back is written or kept further back.
LEMMA FurtherBack ==
    ASSUME Shape, PastHolds, NEW n \in Int, NEW m \in Int, n <= m
    PROVE  /\ Written(n) => Written(m)
           /\ Stored(n) => Stored(m)
           /\ Written(n) /\ stored = Len(file) => Stored(m)
  BY Waits DEF Written, Stored

LEMMA FileStays ==
    ASSUME Shape, PastHolds, past' = past, Len(file') \in Nat, Len(file) <= Len(file'), NEW n \in Int
    PROVE  Written(n) => Written(n)'
<1>1. \A i \in 1..Loss : past[i] \in Nat /\ Len(file) \in Nat
  BY PastTyped, Counters
<1> QED BY <1>1 DEF Written

\* The flight's own steps: only what was taken grows.
LEMMA FlightKept ==
    ASSUME Kept, Len(taken) \in Nat, Len(taken') \in Nat, Len(taken) <= Len(taken'),
           UNCHANGED <<state, to_host, well, past, pass, passed, file, file_open, stored, unsynced, holdoff,
                       due_in, sync_in, holdoff_in, seen>>,
           in_flight => in_flight'
    PROVE  Kept'
<1>1. PastHolds'
  BY Waits, PastTyped DEF Kept, PastHolds
<1>2. UNCHANGED <<Ours, WriteIn>>
  BY DEF Ours, WriteIn
<1>3. ASSUME NEW n \in Int PROVE Written(n)' = Written(n) /\ Stored(n)' = Stored(n)
  BY DEF Written, Stored
<1>4. Unopened => Unopened'
  BY DEF Unopened
<1>5. Between => Between'
  BY <1>2 DEF Between, SyncPending, Written, Stored
<1>6. Within => Within'
  BY DEF Within, Written, Stored
<1> QED BY <1>1, <1>2, <1>4, <1>5, <1>6 DEF Kept

\* A log that stops, is the host's, or whose filesystem may refuse.
LEMMA NotOursKept ==
    ASSUME PastHolds, UNCHANGED <<past, taken>>, ~Ours', state' # "NEVER"
    PROVE  Kept'
  BY DEF Kept, PastHolds

LEMMA StartKept == Inv /\ Kept /\ Start => Kept'
<1> SUFFICES ASSUME Inv, Kept, Start PROVE Kept'
  OBVIOUS
<1>1. /\ state = "NEVER" /\ state' = "RUNNING" /\ taken' = OpeningRows
      /\ UNCHANGED <<pass, file, file_open, past>>
  BY DEF Start, writer, fs, beside
<1>2. taken = <<>> /\ file = <<>> /\ pass = "OVER" /\ ~file_open /\ \A i \in 1..Loss : past[i] = 0
  BY <1>1 DEF Inv, Shape, TypeOK, Counted, Kept
<1>3. PastHolds'
  BY <1>1, <1>2, OpeningTyped DEF Kept, PastHolds
<1>4. Unopened'
  BY <1>1, <1>2, Waits DEF Unopened
<1> QED BY <1>1, <1>2, <1>3, <1>4 DEF Kept

LEMMA FlightStepsKept ==
    ASSUME Inv, Kept, FlightBegin \/ Publish \/ Stop \/ \E kind \in Kinds : Put(kind) \/ Refused(kind)
    PROVE  Kept'
<1>1. taken \in Seq(RowSet) /\ put \in Seq(RowSet) /\ (put # <<>> => Len(put) = 1)
  BY DEF Inv, Shape
<1>2. ASSUME FlightBegin \/ Publish \/ \E kind \in Kinds : Put(kind) \/ Refused(kind) PROVE Kept'
  <2>1. UNCHANGED <<state, to_host, well, past, pass, passed, file, file_open, stored, unsynced, holdoff,
                    due_in, sync_in, holdoff_in, seen>>
    BY <1>2 DEF FlightBegin, Publish, Put, Refused, writer, fs, timers, beside
  <2>2. in_flight => in_flight'
    BY <1>2 DEF FlightBegin, Publish, Put, Refused
  <2>3. Len(taken) \in Nat /\ Len(taken') \in Nat /\ Len(taken) <= Len(taken')
    <3>1. CASE Publish
      BY <1>1, <3>1 DEF Publish
    <3>2. CASE UNCHANGED taken
      BY <1>1, <3>2
    <3> QED BY <1>2, <3>1, <3>2 DEF FlightBegin, Put, Refused
  <2> QED BY <2>1, <2>2, <2>3, FlightKept
<1>3. CASE Stop
  BY <1>3, NotOursKept DEF Stop, beside, Ours, Kept
<1> QED BY <1>2, <1>3

\* What a pass leaves alone, and the state it is for.
LEMMA PassFrame ==
    ASSUME Inv, Pass
    PROVE  /\ UNCHANGED <<past, taken, well, to_host, in_flight>>
           /\ state \in {"RUNNING", "STOPPING"} /\ state' \in {state, "IDLE"}
           /\ pass # "OVER" /\ state = "RUNNING" => st = "RUNNING"
<1>1. UNCHANGED <<past, taken, well, to_host, in_flight>> /\ state' \in {state, "IDLE"}
  BY DEF Pass, PassBegins, GiveUp, HostPass, NotOpened, OpenFile, NotDue, WritesDue, WriteOpening, WriteFails,
     OpeningOver, ReadHead, WriteSpan, MoveTail, SpansOver, PassEnds, Finish, flight, beside
<1>2. pass # "OVER" \/ state \in {"RUNNING", "STOPPING"}
  BY DEF Pass, PassBegins, GiveUp, HostPass, NotOpened, OpenFile, NotDue, WritesDue, WriteOpening, WriteFails,
     OpeningOver, ReadHead, WriteSpan, MoveTail, SpansOver, PassEnds
<1> QED BY <1>1, <1>2 DEF Inv, Counted

\* A pass that leaves the file and what waits for it as they were.
LEMMA SeenKept ==
    ASSUME Inv, Kept, Ours, PassBegins \/ NotOpened
    PROVE  Kept'
<1>1. /\ pass \in {"OVER", "SEEN"} /\ pass' \in {"OVER", "SEEN"}
      /\ UNCHANGED <<past, taken, well, to_host, in_flight, state, file, file_open, stored, unsynced, holdoff,
                     due_in, sync_in, holdoff_in>>
  BY DEF PassBegins, NotOpened, PassOver, Continues, flight, fs, timers, beside
<1>2. PastHolds' /\ state' # "NEVER" /\ Ours'
  BY <1>1 DEF Kept, PastHolds, Ours
<1>3. ASSUME ~file_open PROVE Unopened'
  <2>1. Unopened
    BY <1>3 DEF Kept
  <2>2. past[1] > 0 => passed' = 0
    <3>1. CASE PassBegins
      BY <2>1, <3>1 DEF PassBegins, Continues, Unopened
    <3>2. CASE NotOpened
      <4>1. st = "RUNNING"
        BY <3>2, PassFrame DEF Pass, NotOpened, Ours
      <4>2. ~in_flight
        BY <3>2, <4>1 DEF NotOpened, MayOpen, Ours
      <4> QED BY <2>1, <4>2 DEF Unopened
    <3> QED BY <3>1, <3>2
  <2> QED BY <1>1, <2>1, <2>2 DEF Unopened
<1>4. ASSUME file_open PROVE Between'
  <2>1. Between /\ passed' = passed
    BY <1>1, <1>4 DEF Kept, NotOpened, PassBegins, Continues
  <2> QED BY <1>1, <2>1 DEF Between, SyncPending, WriteIn, Written, Stored
<1> QED BY <1>1, <1>2, <1>3, <1>4 DEF Kept

LEMMA OpenFileKept == Inv /\ Kept /\ Ours /\ OpenFile => Kept'
<1> SUFFICES ASSUME Inv, Kept, Ours, OpenFile PROVE Kept'
  OBVIOUS
<1>1. /\ ~file_open /\ file_open' = TRUE /\ unsynced' = FALSE /\ holdoff' = TRUE
      /\ due_in' = Flush /\ sync_in' = 0 /\ holdoff_in' = Holdoff /\ pass' = pass
      /\ UNCHANGED <<past, taken, well, to_host, in_flight, state, file, stored>>
  BY DEF OpenFile, flight, beside
<1>2. Unopened /\ PastHolds
  BY <1>1 DEF Kept, Ours
<1>3. stored = Len(file)
  <2>1. stored \in Nat /\ stored <= Len(file)
    BY Bounds, Counters DEF Inv
  <2>2. Len(file) = 0
    BY <1>2 DEF Unopened
  <2> QED BY <2>1, <2>2
<1>4. WriteIn' = WriteWait
  BY <1>1 DEF WriteIn, WriteWait
<1>5. Between'
  <2>1. ASSUME NEW i \in 1..Loss, i > 1 PROVE 2 * past[i] <= Len(file)
    <3>1. past[i] = 0 /\ Len(file) = 0
      BY <1>2, <2>1, Waits DEF Unopened
    <3> QED BY <3>1
  <2>2. Written(1 + WriteWait - WriteIn)'
    BY <1>1, <1>4, <2>1, Waits DEF Written
  <2>3. WriteIn' > 0
    BY <1>4, Waits, BoundTypes
  <2> QED BY <1>1, <1>3, <2>2, <2>3 DEF Between
<1> QED BY <1>1, <1>2, <1>5 DEF Kept, PastHolds, Ours, Unopened

\* Not due, a write is a tick away at least.
LEMMA NotDueWaits ==
    ASSUME Inv, NotDue
    PROVE  WriteIn' = WriteIn /\ WriteIn > 0
<1>1. /\ ~Due /\ holdoff' = HeldOff /\ UNCHANGED <<due_in, holdoff_in>>
      /\ holdoff \in BOOLEAN
  BY DEF NotDue, Inv, Shape, TypeOK
<1>2. due_in \in Nat /\ holdoff_in \in Nat
  BY Bounds, BoundTypes DEF Inv
<1>3. ~Full /\ (HeldOff \/ due_in # 0)
  BY <1>1 DEF Due
<1>4. CASE HeldOff
  <2>1. holdoff /\ holdoff' /\ holdoff_in # 0
    BY <1>1, <1>4 DEF HeldOff
  <2>2. WriteIn' = WriteIn
    BY <1>1, <2>1 DEF WriteIn
  <2> QED BY <1>2, <2>1, <2>2 DEF WriteIn
<1>5. CASE ~HeldOff
  <2>1. ~holdoff' /\ due_in > 0 /\ (holdoff => holdoff_in = 0)
    <3>1. ~holdoff' /\ due_in # 0
      BY <1>1, <1>3, <1>5, Zenon
    <3>2. holdoff => holdoff_in = 0
      BY <1>3, <1>5, Zenon DEF HeldOff
    <3> QED BY <1>2, <3>1, <3>2
  <2>2. WriteIn = due_in
    BY <1>2, <2>1 DEF WriteIn
  <2>3. WriteIn' = due_in
    BY <1>1, <2>1 DEF WriteIn
  <2> QED BY <2>1, <2>2, <2>3
<1> QED BY <1>4, <1>5

LEMMA NotDueKept == Inv /\ Kept /\ Ours /\ NotDue => Kept'
<1> SUFFICES ASSUME Inv, Kept, Ours, NotDue PROVE Kept'
  OBVIOUS
<1>1. /\ file_open /\ pass = "SEEN" /\ pass' = "OVER"
      /\ UNCHANGED <<past, taken, well, to_host, in_flight, state, file, file_open, due_in, holdoff_in>>
  BY DEF NotDue, PassOver, flight, beside
<1>2. Between /\ PastHolds
  BY <1>1 DEF Kept
<1>3. WriteIn' = WriteIn /\ WriteIn > 0
  BY NotDueWaits
<1>4. Written(1 + WriteWait - WriteIn)'
  BY <1>1, <1>2, <1>3, Waits DEF Between, Written
<1>5. CASE unsynced /\ sync_in = 0
  <2>1. stored' = Len(file) /\ unsynced' = FALSE
    BY <1>5 DEF NotDue, Ours
  <2> QED BY <1>1, <1>2, <1>3, <1>4, <2>1 DEF Kept, Between, PastHolds, Ours
<1>6. CASE ~(unsynced /\ sync_in = 0)
  <2>1. UNCHANGED <<sync_in, stored, unsynced>>
    BY <1>6 DEF NotDue
  <2>2. unsynced => SyncPending'
    BY <1>1, <1>2, <1>6, <2>1 DEF Between, SyncPending, Stored
  <2> QED BY <1>1, <1>2, <1>3, <1>4, <2>1, <2>2 DEF Kept, Between, PastHolds, Ours
<1> QED BY <1>5, <1>6

\* A write is due, and a sync waits for it at most once.
LEMMA WritesDueKept == Inv /\ Kept /\ Ours /\ Paced /\ WritesDue => Kept'
<1> SUFFICES ASSUME Inv, Kept, Ours, Paced, WritesDue PROVE Kept'
  OBVIOUS
<1>1. /\ file_open /\ pass = "SEEN" /\ Due /\ holdoff' = HeldOff /\ pass' = "OPENING" /\ passed' = passed
      /\ UNCHANGED <<past, taken, well, to_host, state, file, file_open, unsynced, stored, sync_in, due_in, holdoff_in>>
  BY DEF WritesDue, Continues, flight, fs, timers, beside
<1>2. Between /\ PastHolds /\ Shape
  BY <1>1 DEF Kept, Inv
<1>3. st = "RUNNING"
  BY PassFrame DEF Pass, WritesDue, Ours
<1>4. ~HeldOff /\ (Full \/ due_in = 0)
  BY <1>1, <1>3, Zenon DEF Due, HeldOff
<1>5. WriteIn \in 0..WriteWait /\ sync_in \in 0..SyncWait /\ sync_in \in 0..Sync /\ passed \in Nat
  BY <1>2, WriteInTyped, Bounds, BoundTypes
<1>6. CASE unsynced
  <2>1. SyncPending
    BY <1>2, <1>6 DEF Between
  <2>2. ~(due_in = Flush /\ ~holdoff)
    <3>1. Full => ~(due_in = Flush /\ ~holdoff)
      BY <1>1, Zenon DEF Paced, Ours
    <3>2. due_in = 0 => due_in # Flush
      BY Waits
    <3> QED BY <1>4, <3>1, <3>2
  <2>3. Stored(WriteWait + SyncWait - sync_in) /\ (sync_in = 0 /\ passed > 0 => Stored(WriteWait + SyncWait - 1))
    BY <2>1, <2>2, Zenon DEF SyncPending
  <2> QED BY <1>1, <1>4, <1>6, <2>3 DEF Kept, Within, PastHolds, Ours, Stored
<1>7. CASE ~unsynced
  <2>1. stored = Len(file) /\ Written(1 + WriteWait - WriteIn)
    BY <1>2, <1>7 DEF Between
  <2>2. Stored(WriteWait + SyncWait - sync_in)
    <3>1. 1 + WriteWait - WriteIn <= WriteWait + SyncWait - sync_in
      <4>1. Sync > 0 /\ sync_in = Sync => WriteIn > 0
        BY <1>2 DEF Between
      <4> QED BY <1>5, <4>1, Waits, BoundTypes
    <3>2. 1 + WriteWait - WriteIn \in Int /\ WriteWait + SyncWait - sync_in \in Int
      BY <1>5, Waits
    <3> QED BY <1>2, <2>1, <3>1, <3>2, FurtherBack
  <2>3. passed > 0 => Stored(WriteWait + SyncWait - 1)
    <3>1. passed > 0 => 1 + WriteWait - WriteIn <= WriteWait + SyncWait - 1
      BY <1>2, <1>5, Waits DEF Between
    <3>2. 1 + WriteWait - WriteIn \in Int /\ WriteWait + SyncWait - 1 \in Int
      BY <1>5, Waits
    <3> QED BY <1>2, <2>1, <3>1, <3>2, FurtherBack
  <2> QED BY <1>1, <1>4, <2>1, <2>2, <2>3 DEF Kept, Within, PastHolds, Ours, Stored
<1> QED BY <1>6, <1>7

\* Within a pass, what is kept stays so.
LEMMA WithinStays ==
    ASSUME Inv, Kept, Ours, pass \in {"OPENING", "HEAD", "SPAN", "TAIL"}, Pass,
           pass' \in {"OPENING", "HEAD", "SPAN", "TAIL", "END"}, passed' = passed,
           UNCHANGED <<state, file_open, holdoff, sync_in, stored>>,
           unsynced' \/ UNCHANGED <<unsynced, file>>,
           pass' \in {"SPAN", "TAIL"} => \A i \in 1..Loss : 2 * past[i] <= 2 * Opening + seen',
           pass' = "END" => Written(0)'
    PROVE  Kept'
<1>1. UNCHANGED <<past, taken, well, to_host>>
  BY PassFrame
<1>2. Within /\ file_open
  BY DEF Kept, Unopened
<1>3. Within'
  BY <1>1, <1>2 DEF Within, Stored
<1> QED BY <1>1, <1>2, <1>3 DEF Kept, PastHolds, Ours

LEMMA WriteOpeningKept == Inv /\ Kept /\ Ours /\ WriteOpening => Kept'
<1> SUFFICES ASSUME Inv, Kept, Ours, WriteOpening PROVE Kept'
  OBVIOUS
<1>1. /\ pass = "OPENING" /\ unsynced' = TRUE /\ passed' = passed
      /\ UNCHANGED <<state, file_open, holdoff, sync_in, stored>>
  BY DEF WriteOpening, Continues, timers
<1>2. pass' = "OPENING"
  <2>1. PICK n \in 1..(2 - (opened % 2)) :
            /\ n < 2 - (opened % 2) => ~well
            /\ opened' = opened + n
            /\ Continues(IF opened' % 2 = 0 THEN "OPENING" ELSE "END")
    BY DEF WriteOpening
  <2>2. opened \in Nat /\ n = 2 - (opened % 2)
    BY <2>1, Counters DEF Inv, Ours
  <2>3. opened' % 2 = 0
    BY <2>1, <2>2
  <2> QED BY <2>1, <2>3 DEF Continues
<1> QED BY <1>1, <1>2, WithinStays DEF Pass

LEMMA OpeningOverKept == Inv /\ Kept /\ Ours /\ OpeningOver => Kept'
<1> SUFFICES ASSUME Inv, Kept, Ours, OpeningOver PROVE Kept'
  OBVIOUS
<1>1. /\ pass = "OPENING" /\ pass' = "HEAD" /\ passed' = passed
      /\ UNCHANGED <<state, file_open, holdoff, sync_in, stored, unsynced, file>>
  BY DEF OpeningOver, Continues, timers, fs
<1> QED BY <1>1, WithinStays DEF Pass

\* The head read has all that was taken behind it.
LEMMA ReadHeadKept == Inv /\ Kept /\ Ours /\ ReadHead => Kept'
<1> SUFFICES ASSUME Inv, Kept, Ours, ReadHead PROVE Kept'
  OBVIOUS
<1>1. /\ pass = "HEAD" /\ pass' = "SPAN" /\ passed' = passed /\ seen' = head
      /\ UNCHANGED <<state, file_open, holdoff, sync_in, stored, unsynced, file>>
  BY DEF ReadHead, Continues, timers, fs
<1>2. \A i \in 1..Loss : 2 * past[i] <= 2 * Opening + seen'
  <2>1. 2 * Len(taken) = 2 * Opening + head /\ Len(taken) \in Nat /\ head \in Nat /\ Opening \in Nat
    BY Counters, OpeningTyped DEF Inv, Counted, Ours
  <2>2. \A i \in 1..Loss : past[i] \in Nat /\ past[i] <= Len(taken)
    BY PastTyped DEF Kept, PastHolds
  <2> QED BY <1>1, <2>1, <2>2
<1> QED BY <1>1, <1>2, WithinStays DEF Pass

LEMMA WriteSpanKept == Inv /\ Kept /\ Ours /\ WriteSpan => Kept'
<1> SUFFICES ASSUME Inv, Kept, Ours, WriteSpan PROVE Kept'
  OBVIOUS
<1>1. /\ pass = "SPAN" /\ pass' = "TAIL" /\ passed' = passed /\ unsynced' = TRUE /\ seen' = seen
      /\ UNCHANGED <<state, file_open, holdoff, sync_in, stored>>
  BY DEF WriteSpan, Continues, timers, Ours
<1>2. Within
  BY <1>1 DEF Kept, Unopened
<1> QED BY <1>1, <1>2, WithinStays DEF Pass, Within

LEMMA MoveTailKept == Inv /\ Kept /\ Ours /\ MoveTail => Kept'
<1> SUFFICES ASSUME Inv, Kept, Ours, MoveTail PROVE Kept'
  OBVIOUS
<1>1. /\ pass = "TAIL" /\ pass' = "SPAN" /\ passed' = passed /\ seen' = seen
      /\ UNCHANGED <<state, file_open, holdoff, sync_in, stored, unsynced, file>>
  BY DEF MoveTail, Continues, timers, fs
<1>2. Within
  BY <1>1 DEF Kept, Unopened
<1> QED BY <1>1, <1>2, WithinStays DEF Pass, Within

\* The spans out, the file has all up to the head that was read.
LEMMA SpansOverKept == Inv /\ Kept /\ Ours /\ SpansOver => Kept'
<1> SUFFICES ASSUME Inv, Kept, Ours, SpansOver PROVE Kept'
  OBVIOUS
<1>1. /\ pass = "SPAN" /\ tail = seen /\ pass' = "END" /\ passed' = passed
      /\ UNCHANGED <<state, file_open, holdoff, sync_in, stored, unsynced, file>>
  BY DEF SpansOver, Continues, timers, fs
<1>2. Within
  BY <1>1 DEF Kept, Unopened
<1>3. UNCHANGED past
  BY PassFrame DEF Pass
<1>4. Len(file) = opened + tail + 0 /\ ~(opened < 2 * Opening) /\ opened <= 2 * Opening
  BY <1>1, Bounds DEF Inv, Counted, Ours
<1>5. Len(file) = 2 * Opening + seen
  BY <1>1, <1>4, Counters, OpeningTyped DEF Inv
<1>6. Written(0)'
  BY <1>1, <1>2, <1>3, <1>5 DEF Within, Written
<1> QED BY <1>1, <1>6, WithinStays DEF Pass

\* The pass is over with the file up to date, and the next write a flush away.
LEMMA PassEndsKept == Inv /\ Kept /\ Ours /\ PassEnds => Kept'
<1> SUFFICES ASSUME Inv, Kept, Ours, PassEnds PROVE Kept'
  OBVIOUS
<1>1. pass = "END" /\ st = "RUNNING"
  BY PassFrame DEF Pass, PassEnds, Ours
<1>2. /\ pass' = "OVER" /\ due_in' = Flush /\ passed' = (IF passed < Passes THEN passed + 1 ELSE passed)
      /\ UNCHANGED <<state, file_open, stored, past, taken, well, to_host, file, unsynced, holdoff, sync_in, holdoff_in>>
  BY <1>1 DEF PassEnds, AllOut, PassOver, TickPasses, Ours, flight, beside
<1>3. Within /\ file_open /\ PastHolds /\ Shape
  BY <1>1 DEF Kept, Unopened, Inv
<1>4. ~holdoff' /\ WriteIn' = Flush /\ Written(0)
  BY <1>1, <1>2, <1>3 DEF Within, WriteIn
<1>5. Written(1 + WriteWait - WriteIn)'
  <2>1. 1 + WriteWait - Flush \in Int /\ 0 <= 1 + WriteWait - Flush
    BY Waits, BoundTypes
  <2>2. Written(1 + WriteWait - Flush)
    BY <1>3, <1>4, <2>1, FurtherBack
  <2> QED BY <1>2, <1>4, <2>2 DEF Written
<1>6. SyncPending'
  <2>1. Stored(WriteWait + SyncWait - sync_in)' /\ (sync_in = 0 /\ passed > 0 => Stored(WriteWait + SyncWait - 1)')
    BY <1>2, <1>3 DEF Within, Stored
  <2>2. passed > 0 \/ passed' = 1
    BY <1>2, <1>3, Bounds, Waits, BoundTypes
  <2> QED BY <1>2, <1>4, <2>1, <2>2 DEF SyncPending
<1>7. Between'
  BY <1>2, <1>3, <1>4, <1>5, <1>6, Waits DEF Between, Within
<1> QED BY <1>2, <1>3, <1>7 DEF Kept, PastHolds, Ours

LEMMA PassKept == Inv /\ Kept /\ Paced /\ Pass => Kept'
<1> SUFFICES ASSUME Inv, Kept, Paced, Pass PROVE Kept'
  OBVIOUS
<1>1. CASE ~Ours
  <2>1. ~Ours' /\ state' # "NEVER" /\ UNCHANGED <<past, taken>>
    BY <1>1, PassFrame DEF Ours
  <2> QED BY <2>1, NotOursKept DEF Kept
<1>2. CASE Ours
  <2>1. ~GiveUp /\ ~HostPass /\ ~WriteFails
    BY <1>2, PassFrame DEF GiveUp, Overdue, HostPass, WriteFails, Ours
  <2> QED BY <1>2, <2>1, SeenKept, OpenFileKept, NotDueKept, WritesDueKept, WriteOpeningKept, OpeningOverKept,
             ReadHeadKept, WriteSpanKept, MoveTailKept, SpansOverKept, PassEndsKept DEF Pass
<1> QED BY <1>1, <1>2

-----------------------------------------------------------------------------
(* And time's.                                                               *)

LEMMA PastShifts ==
    ASSUME Shape, PastHolds
    PROVE  LET shifted == <<Len(taken)>> \o SubSeq(past, 1, Loss - 1)
           IN  /\ shifted \in Seq(Nat) /\ Len(shifted) = Loss /\ shifted[1] = Len(taken)
               /\ \A i \in 2..Loss : shifted[i] = past[i - 1]
<1> DEFINE first == <<Len(taken)>>
           rest == SubSeq(past, 1, Loss - 1)
<1>1. PICK l \in Nat : l = Loss - 1
  BY Waits
<1>2. Len(taken) \in Nat /\ Loss \in Nat /\ past \in Seq(Nat) /\ Len(past) = Loss
  BY Counters, Waits DEF PastHolds
<1>3. first \in Seq(Nat) /\ Len(first) = 1 /\ first[1] = Len(taken)
  BY <1>2
<1>4. rest \in Seq(Nat) /\ Len(rest) = l /\ \A i \in 1..l : rest[i] = past[i]
  <2>1. \A i \in 1..l : past[i] \in Nat
    BY <1>1, <1>2
  <2>2. /\ rest \in Seq(Nat) /\ Len(rest) = IF 1 <= l THEN l - 1 + 1 ELSE 0
        /\ \A i \in 1..(l - 1 + 1) : rest[i] = past[1 + i - 1]
    BY <1>1, <2>1, SubSeqProperties
  <2>3. l - 1 + 1 = l /\ \A i \in 1..l : 1 + i - 1 = i
    OBVIOUS
  <2>4. Len(rest) = l
    BY <2>2
  <2> QED BY <2>2, <2>3, <2>4
<1>5. /\ first \o rest \in Seq(Nat) /\ Len(first \o rest) = Len(first) + Len(rest)
      /\ \A i \in 1..(Len(first) + Len(rest)) :
             (first \o rest)[i] = IF i <= Len(first) THEN first[i] ELSE rest[i - Len(first)]
  BY <1>3, <1>4, ConcatProperties
<1> HIDE DEF first, rest
<1>6. ASSUME NEW i \in 2..Loss PROVE (first \o rest)[i] = past[i - 1]
  <2>1. i \in 1..(1 + l) /\ ~(i <= 1) /\ i - 1 \in 1..l
    BY <1>1, <1>2
  <2> QED BY <1>3, <1>4, <1>5, <2>1
<1>7. Len(first \o rest) = Loss /\ (first \o rest)[1] = Len(taken)
  BY <1>1, <1>2, <1>3, <1>4, <1>5
<1> QED BY <1>5, <1>6, <1>7 DEF first, rest

LEMMA TickKept == Inv /\ Kept /\ Tick => Kept'
<1> SUFFICES ASSUME Inv, Kept, Tick PROVE Kept'
  OBVIOUS
<1>1. /\ pass = "OVER" /\ passed' = 0 /\ due_in' = Less(due_in) /\ sync_in' = Less(sync_in)
      /\ holdoff_in' = Less(holdoff_in)
      /\ UNCHANGED <<taken, state, to_host, well, pass, file, file_open, stored, unsynced, holdoff, in_flight>>
  BY DEF Tick, flight, writer, fs
<1>2. PastHolds /\ Shape
  BY DEF Kept, Inv
<1>3. /\ past' \in Seq(Nat) /\ Len(past') = Loss
      /\ well => past'[1] = Len(taken) /\ \A i \in 2..Loss : past'[i] = past[i - 1]
      /\ ~well => past' = past
  BY <1>2, PastShifts DEF Tick, PastHolds
<1>4. Len(taken) \in Nat /\ Loss \in Nat /\ \A i \in 1..Loss : past[i] \in Nat /\ past[i] <= Len(taken)
  BY <1>2, Counters, PastTyped, Waits DEF PastHolds
<1>5. PastHolds'
  <2>1. ASSUME NEW i \in 1..Loss PROVE past'[i] <= Len(taken)
    <3>1. CASE i = 1 /\ well
      BY <1>3, <1>4, <3>1
    <3>2. CASE i # 1 /\ well
      <4>1. i \in 2..Loss /\ i - 1 \in 1..Loss
        BY <1>4, <3>2
      <4> QED BY <1>3, <1>4, <3>2, <4>1
    <3>3. CASE ~well
      BY <1>3, <1>4, <3>3
    <3> QED BY <3>1, <3>2, <3>3
  <2> QED BY <1>1, <1>3, <2>1 DEF PastHolds
<1>6. CASE state = "NEVER"
  <2>1. Len(taken) = 0 /\ \A i \in 1..Loss : past[i] = 0
    BY <1>6 DEF Inv, Counted, Kept
  <2>2. ASSUME NEW i \in 1..Loss PROVE past'[i] = 0
    <3>1. i = 1 \/ (i \in 2..Loss /\ i - 1 \in 1..Loss)
      BY <1>4
    <3> QED BY <1>3, <2>1, <3>1
  <2> QED BY <1>1, <1>5, <1>6, <2>2 DEF Kept, Ours
<1>7. CASE state # "NEVER" /\ ~Ours
  BY <1>1, <1>5, <1>7 DEF Kept, Ours
<1>8. CASE Ours
  <2>1. passed = Passes /\ in_flight /\ well
    BY <1>8 DEF Tick, Ours, TickPasses
  <2>2. ASSUME ~file_open PROVE Unopened'
    <3>1. Unopened /\ ~(past[1] > 0)
      BY <1>8, <2>1, <2>2, Waits, BoundTypes DEF Kept, Unopened
    <3>2. ASSUME NEW i \in 2..Loss PROVE past'[i] = 0
      <4>1. i - 1 = 1 \/ i - 1 \in 2..Loss
        BY <1>4
      <4>2. past[1] = 0
        BY <1>4, <3>1, Waits
      <4> QED BY <1>3, <2>1, <3>1, <4>1, <4>2 DEF Unopened
    <3> QED BY <1>1, <2>1, <3>1, <3>2 DEF Unopened
  <2>3. ASSUME file_open PROVE Between'
    <3>1. Between
      BY <1>1, <1>8, <2>3 DEF Kept
    <3>2. WriteIn > 0 /\ WriteIn \in 0..WriteWait /\ sync_in \in 0..SyncWait /\ due_in \in Nat /\ holdoff_in \in Nat
          /\ sync_in \in 0..Sync
      BY <1>2, <2>1, <3>1, WriteInTyped, Waits, Bounds, BoundTypes DEF Between
    <3>3. WriteIn' = WriteIn - 1
      BY <1>1, <3>2 DEF WriteIn, Less
    <3>4. ASSUME NEW n \in Nat, NEW m \in Int, m >= n + 1, Written(n) PROVE Written(m)'
      <4>1. ASSUME NEW i \in 1..Loss, i > m PROVE 2 * past'[i] <= Len(file)
        <5>1. i \in 2..Loss /\ i - 1 \in 1..Loss /\ i - 1 > n
          BY <1>4, <3>4, <4>1
        <5> QED BY <1>3, <2>1, <3>4, <5>1 DEF Written
      <4> QED BY <1>1, <4>1 DEF Written
    <3>5. ASSUME NEW n \in Nat, NEW m \in Int, m >= n + 1, Stored(n) PROVE Stored(m)'
      <4>1. ASSUME NEW i \in 1..Loss, i > m PROVE 2 * past'[i] <= stored
        <5>1. i \in 2..Loss /\ i - 1 \in 1..Loss /\ i - 1 > n
          BY <1>4, <3>5, <4>1
        <5> QED BY <1>3, <2>1, <3>5, <5>1 DEF Stored
      <4> QED BY <1>1, <4>1 DEF Stored
    <3>6. Written(1 + WriteWait - WriteIn)'
      <4>1. PICK w \in Nat : w = WriteIn
        BY <3>2, Waits
      <4>2. 1 + WriteWait - w \in Nat /\ 1 + WriteWait - (w - 1) \in Int
            /\ 1 + WriteWait - (w - 1) >= (1 + WriteWait - w) + 1
        BY <3>2, <4>1, Waits
      <4>3. Written(1 + WriteWait - w)
        BY <3>1, <4>1 DEF Between
      <4>4. Written(1 + WriteWait - (w - 1))'
        BY <3>4, <4>2, <4>3
      <4> QED BY <3>3, <4>1, <4>4 DEF Written
    <3>7. ~(Sync > 0 /\ sync_in' = Sync)
      BY <1>1, <3>2, BoundTypes DEF Less
    <3>8. unsynced => SyncPending'
      <4> SUFFICES ASSUME unsynced PROVE Stored(WriteWait + SyncWait - sync_in)'
        <5>1. ~(passed' > 0)
          BY <1>1
        <5> QED BY <5>1 DEF SyncPending
      <4>1. SyncPending
        BY <3>1 DEF Between
      <4>2. CASE sync_in > 0
        <5>1. PICK w \in Nat : w = sync_in
          BY <3>2, Waits
        <5>2. WriteWait + SyncWait - w \in Nat /\ WriteWait + SyncWait - (w - 1) \in Int
              /\ WriteWait + SyncWait - (w - 1) >= (WriteWait + SyncWait - w) + 1
          BY <3>2, <5>1, Waits
        <5>3. Stored(WriteWait + SyncWait - w)
          BY <4>1, <5>1 DEF SyncPending
        <5>4. Stored(WriteWait + SyncWait - (w - 1))'
          BY <3>5, <5>2, <5>3
        <5>5. sync_in' = w - 1
          BY <1>1, <4>2, <5>1 DEF Less
        <5> QED BY <5>4, <5>5 DEF Stored
      <4>3. CASE sync_in = 0
        <5>1. passed > 0 /\ passed # 1
          BY <2>1, Waits, BoundTypes
        <5>2. Stored(WriteWait + SyncWait - 1)
          BY <4>1, <4>3, <5>1 DEF SyncPending
        <5>3. WriteWait + SyncWait - 1 \in Nat /\ WriteWait + SyncWait - 0 \in Int
              /\ WriteWait + SyncWait - 0 >= (WriteWait + SyncWait - 1) + 1
          BY Waits
        <5>4. Stored(WriteWait + SyncWait - 0)'
          BY <3>5, <5>2, <5>3
        <5>5. sync_in' = 0
          BY <1>1, <4>3 DEF Less
        <5> QED BY <5>4, <5>5 DEF Stored
      <4> QED BY <3>2, <4>2, <4>3
    <3> QED BY <1>1, <3>1, <3>6, <3>7, <3>8 DEF Between
  <2> QED BY <1>1, <1>5, <1>8, <2>2, <2>3 DEF Kept, Ours
<1> QED BY <1>6, <1>7, <1>8

LEMMA InitKept == Init => Kept
<1> SUFFICES ASSUME Init PROVE Kept
  OBVIOUS
<1>1. state = "NEVER" /\ ~file_open /\ past = [i \in 1..Loss |-> 0] /\ taken = <<>>
  BY DEF Init
<1>2. past \in Seq(Nat) /\ Len(past) = Loss /\ \A i \in 1..Loss : past[i] = 0
  BY <1>1, Waits
<1>3. PastHolds
  <2>1. Len(taken) = 0
    BY <1>1
  <2> QED BY <1>2, <2>1 DEF PastHolds
<1> QED BY <1>1, <1>2, <1>3 DEF Kept, Ours

LEMMA NextKept == Inv /\ Kept /\ Paced /\ [Next]_vars => Kept'
<1> SUFFICES ASSUME Inv, Kept, Paced, [Next]_vars PROVE Kept'
  OBVIOUS
<1>1. CASE UNCHANGED vars
  <2>1. UNCHANGED <<state, to_host, well, past, pass, passed, file, file_open, stored, unsynced, holdoff,
                    due_in, sync_in, holdoff_in, seen, taken, in_flight>>
    BY <1>1 DEF vars, flight, writer, fs, timers, beside
  <2>2. Len(taken) \in Nat /\ Len(taken') \in Nat /\ Len(taken) <= Len(taken')
    BY <2>1, Counters DEF Inv
  <2> QED BY <2>1, <2>2, FlightKept
<1>2. CASE Next
  BY <1>2, StartKept, FlightStepsKept, PassKept, TickKept DEF Next
<1> QED BY <1>1, <1>2

LEMMA KeptRows == Inv /\ Kept => RowsKept
<1> SUFFICES ASSUME Inv, Kept, Ours PROVE stored >= 2 * past[Loss]
  BY DEF RowsKept, Ours
<1>1. Shape /\ PastHolds /\ Loss \in 1..Loss /\ Loss \in 2..Loss
  BY Waits DEF Inv, Kept
<1>2. stored \in Nat /\ past[Loss] \in Nat /\ sync_in \in 0..SyncWait /\ WriteIn \in 0..WriteWait
  BY <1>1, Counters, PastTyped, WriteInTyped
<1>3. CASE ~file_open
  BY <1>1, <1>2, <1>3 DEF Kept, Unopened
<1>4. CASE file_open
  <2>1. CASE Stored(WriteWait + SyncWait - sync_in)
    <3>1. Loss > WriteWait + SyncWait - sync_in
      BY <1>2, Waits
    <3> QED BY <1>1, <1>2, <2>1, <3>1 DEF Stored
  <2>2. CASE ~unsynced /\ pass \in {"OVER", "SEEN"}
    <3>1. stored = Len(file) /\ Written(1 + WriteWait - WriteIn)
      BY <1>4, <2>2 DEF Kept, Between
    <3>2. Loss > 1 + WriteWait - WriteIn
      BY <1>2, Waits
    <3> QED BY <1>1, <1>2, <3>1, <3>2 DEF Written
  <2> QED BY <1>4, <2>1, <2>2 DEF Kept, Between, Within, SyncPending
<1> QED BY <1>3, <1>4

\* Where no flush follows another in its tick, a power loss takes no row older than
\* the wait for a write and the one for its sync, whatever the ring's size, the times
\* and the rows (log_service, log_sync_if_due).
THEOREM RowsAlwaysKept == Spec /\ []Paced => []RowsKept
<1>1. Spec => []Inv
  BY InitInv, NextInv, PTL DEF Spec
<1>2. Spec /\ []Paced => []Kept
  BY <1>1, InitKept, NextKept, PTL DEF Spec
<1> QED BY <1>1, <1>2, KeptRows, PTL
=============================================================================
