------------------------------ MODULE HttpProofs ------------------------------
(***************************************************************************)
(* The HTTP server: LentToOne, FinBehindAll and LogGetsFiles, for links,      *)
(* exchanges, rings, answers and units of any number; and ImagesSound, of the *)
(* firmware update it carries, for images of any number of sectors.           *)
(*                                                                         *)
(* A unit of work is taken apart first: whatever piece of a request it parses *)
(* or of an answer it pumps, an exchange Moves on (RespondMoves to           *)
(* ServicedMoves). The invariant then says who holds what (Held), what is in *)
(* flight (Sends), what the exchanges are at (Runs), who waits (Queued) and  *)
(* who has let go of the filesystem (Given). A step of the stack or of the    *)
(* pass touches one link and its exchange, which it keeps (LinkStays) or      *)
(* gives back (LinkReleases); Attach and Work have a lemma each.             *)
(***************************************************************************)
EXTENDS HttpLinks, FiniteSetTheorems, SequenceTheorems, WellFoundedInduction, Update, TLAPS

-----------------------------------------------------------------------------
(* Numbers: the least of a set, and the turns of the exchanges.              *)

LEMMA SizeTypes ==
    /\ HeadUnits \in Nat /\ HeadUnits > 0 /\ RxCap \in Nat /\ RxCap > 0 /\ TxCap \in Nat /\ TxCap > 0
    /\ MaxBody \in Nat /\ MaxAnswer \in Nat /\ MaxAnswer > 0 /\ MaxWait \in Nat
  BY SizesAssumption

LEMMA CountTypes ==
    /\ NLinks \in Nat /\ NLinks > 0 /\ NExchanges \in Nat /\ NExchanges > 0
    /\ Mss \in Nat /\ Mss > 0 /\ UnitsPerPass \in Nat /\ UnitsPerPass > 0
  BY LinksAssumption

LEMMA LeastOf ==
    ASSUME NEW S \in SUBSET Nat, S # {}
    PROVE  \E m \in S : \A n \in S : m <= n
<1> DEFINE Below == {pair \in Nat \X Nat : pair[1] < pair[2]}
<1>1. IsWellFoundedOn(Below, Nat)
  BY NatLessThanWellFounded, Zenon DEF OpToRel
<1>2. PICK m \in S : \A n \in S : ~(<<n, m>> \in Below)
  <2> HIDE DEF Below
  <2> QED BY <1>1, WFMin, Zenon
<1>3. \A n \in S : ~(n < m)
  BY <1>2
<1> QED BY <1>3

LEMMA MinIsLeast ==
    ASSUME NEW S \in SUBSET Nat, S # {}
    PROVE  Min(S) \in S /\ \A n \in S : Min(S) <= n
  BY LeastOf DEF Min

LEMMA MinOfTwo ==
    ASSUME NEW a \in Nat, NEW b \in Nat
    PROVE  Min({a, b}) \in Nat /\ Min({a, b}) \in {a, b} /\ Min({a, b}) <= a /\ Min({a, b}) <= b
<1>1. {a, b} \in SUBSET Nat /\ {a, b} # {}
  OBVIOUS
<1> QED BY <1>1, MinIsLeast

\* The exchanges follow one another round.
LEMMA AfterTyped == \A e \in Exchanges, k \in Nat : After(e, k) \in Exchanges
<1> SUFFICES ASSUME NEW e \in Exchanges, NEW k \in Nat PROVE After(e, k) \in Exchanges
  OBVIOUS
<1>1. e + k - 1 \in Nat
  BY CountTypes DEF Exchanges
<1>2. (e + k - 1) % NExchanges \in 0..(NExchanges - 1)
  BY <1>1, CountTypes
<1> QED BY <1>2, CountTypes DEF After, Exchanges

LEMMA Round ==
    ASSUME NEW a \in 0..(NExchanges - 1)
    PROVE  a % NExchanges = a /\ (a + NExchanges) % NExchanges = a
<1> DEFINE r == (a + NExchanges) % NExchanges
           q == (a + NExchanges) \div NExchanges
           s == a % NExchanges
           p == a \div NExchanges
<1>1. r \in 0..(NExchanges - 1) /\ q \in Nat /\ a + NExchanges = NExchanges * q + r
  BY CountTypes
<1>2. s \in 0..(NExchanges - 1) /\ p \in Nat /\ a = NExchanges * p + s
  BY CountTypes
<1> HIDE DEF r, q, s, p
<1>3. ASSUME NEW m \in Nat, m > 0 PROVE NExchanges * m >= NExchanges
  <2>1. PICK d \in Nat : m = d + 1
    <3>1. m - 1 \in Nat /\ m = (m - 1) + 1
      BY <1>3
    <3> QED BY <3>1
  <2>2. NExchanges * m = NExchanges * d + NExchanges /\ NExchanges * d \in Nat
    BY <2>1, CountTypes
  <2> QED BY <2>2, CountTypes
<1>4. p = 0
  <2> SUFFICES ASSUME p > 0 PROVE FALSE
    BY <1>2
  <2>1. NExchanges * p >= NExchanges /\ NExchanges * p \in Nat
    BY <1>2, <1>3, CountTypes
  <2> QED BY <1>2, <2>1, CountTypes
<1>5. s = a
  BY <1>2, <1>4, CountTypes
<1>6. q # 0
  BY <1>1, CountTypes
<1>7. PICK d \in Nat : q = d + 1
  <2>1. q - 1 \in Nat /\ q = (q - 1) + 1
    BY <1>1, <1>6
  <2> QED BY <2>1
<1>8. NExchanges * q = NExchanges * d + NExchanges /\ NExchanges * d \in Nat
  BY <1>7, CountTypes
<1>9. a = NExchanges * d + r
  BY <1>1, <1>8, CountTypes
<1>10. d = 0
  <2> SUFFICES ASSUME d > 0 PROVE FALSE
    BY <1>7
  <2>1. NExchanges * d >= NExchanges
    BY <1>3, <1>7
  <2> QED BY <1>1, <1>8, <1>9, <2>1, CountTypes
<1>11. r = a
  BY <1>1, <1>9, <1>10, CountTypes
<1> QED BY <1>5, <1>11 DEF r, s

LEMMA TurnReaches ==
    ASSUME NEW t \in Exchanges, NEW e \in Exchanges
    PROVE  \E j \in 0..(NExchanges - 1) : After(t, j) = e
<1>1. CASE t <= e
  <2>1. e - t \in 0..(NExchanges - 1) /\ t + (e - t) - 1 = e - 1 /\ e - 1 \in 0..(NExchanges - 1) /\ (e - 1) + 1 = e
    BY <1>1, CountTypes DEF Exchanges
  <2> QED BY <2>1, Round DEF After
<1>2. CASE e < t
  <2>1. /\ e - t + NExchanges \in 0..(NExchanges - 1) /\ t + (e - t + NExchanges) - 1 = (e - 1) + NExchanges
        /\ e - 1 \in 0..(NExchanges - 1) /\ (e - 1) + 1 = e
    BY <1>2, CountTypes DEF Exchanges
  <2> QED BY <2>1, Round DEF After
<1> QED BY <1>1, <1>2 DEF Exchanges

\* The one chosen has something to run.
LEMMA ChosenRuns ==
    ASSUME turn \in Exchanges, NEW r \in Exchanges, Runnable(r)
    PROVE  Chosen \in Exchanges /\ Runnable(Chosen)
<1> DEFINE Ready == {j \in 0..(NExchanges - 1) : Runnable(After(turn, j))}
<1>1. Ready \in SUBSET Nat /\ Ready # {}
  <2>1. \A j \in 0..(NExchanges - 1) : j \in Nat
    OBVIOUS
  <2> QED BY <2>1, TurnReaches
<1>2. PICK m \in Ready : \A n \in Ready : m <= n
  BY <1>1, LeastOf
<1> DEFINE First(j) == Runnable(After(turn, j)) /\ \A i \in 0..(j - 1) : ~Runnable(After(turn, i))
           k == CHOOSE j \in 0..(NExchanges - 1) : First(j)
<1>3. m \in 0..(NExchanges - 1) /\ First(m)
  <2>1. \A i \in 0..(m - 1) : i \in 0..(NExchanges - 1) /\ ~(m <= i)
    BY <1>2, CountTypes
  <2> QED BY <1>2, <2>1
<1>4. k \in 0..(NExchanges - 1) /\ First(k)
  BY <1>3
<1>5. Chosen = After(turn, k)
  BY DEF Chosen
<1> QED BY <1>4, <1>5, AfterTyped

-----------------------------------------------------------------------------
(* An exchange: what each unit of work makes of it.                          *)

\* An exchange that has ended has nothing left to send, and one that waits for
\* a status is at its body.
Sound(x) ==
    /\ x \in Exchange
    /\ ~Responded(x) => x.left = 0 /\ x.failed = FALSE
    /\ x.phase = "DONE" => x.left = 0 /\ x.failed = FALSE
    /\ x.phase \in {"HEAD", "SEND", "DONE"} => x.route = "none"

\* And a unit takes nothing of an answer back, nor the filesystem from the log.
Moves(x, y, busy) == Sound(y) /\ (y.fs = TRUE => x.fs = TRUE \/ busy = FALSE) /\ x.tx <= y.tx

LEMMA Values ==
    /\ {"HEAD", "BODY", "APPLY", "SEND", "DONE"} \subseteq Phases
    /\ {"none", "file", "status", "flog", "post"} \subseteq Routes
    /\ 0 \in 0..HeadUnits /\ 0 \in 0..MaxBody /\ 0 \in 0..MaxWait /\ 0 \in 0..MaxAnswer
    /\ 0 \in 0..TxCap /\ 0 \in 0..RxCap
  BY SizeTypes DEF Phases, Routes

LEMMA MovesOn ==
    ASSUME NEW x \in Exchange, NEW y \in Exchange, NEW z, NEW busy \in BOOLEAN, Moves(x, y, busy), Moves(y, z, busy)
    PROVE  Moves(x, z, busy)
<1>1. x.tx \in Nat /\ y.tx \in Nat /\ z.tx \in Nat
  BY DEF Moves, Sound, Exchange
<1> QED BY <1>1 DEF Moves

LEMMA FreshSound == Sound(Fresh) /\ Fresh.tx = 0 /\ Fresh.fs = FALSE /\ Fresh \in Exchange
  BY SizeTypes DEF Fresh, Sound, Exchange, Phases, Routes, Responded

LEMMA RespondMoves ==
    ASSUME NEW x \in Exchange, x.left = 0, x.failed = FALSE,
           NEW n \in 0..MaxAnswer, NEW streamed \in BOOLEAN, NEW busy \in BOOLEAN
    PROVE  Moves(x, Respond(x, n, streamed), busy)
<1> DEFINE k == IF streamed THEN 0 ELSE Min({n, TxCap - 1 - x.tx})
           y == [x EXCEPT !.phase = "SEND", !.stream = streamed, !.route = "none", !.head = 0, !.body = 0, !.wait = 0]
<1>1. x.tx \in 0..TxCap /\ n \in Nat
  BY SizeTypes DEF Exchange
<1>2. y \in Exchange /\ y.tx = x.tx /\ y.fs = x.fs /\ y.phase = "SEND" /\ y.route = "none" /\ y.left = 0
  BY Values DEF Exchange
<1>3. CASE x.tx = TxCap
  <2> DEFINE z == [y EXCEPT !.failed = TRUE]
  <2>1. Respond(x, n, streamed) = z
    BY <1>3 DEF Respond
  <2> HIDE DEF y
  <2>2. z \in Exchange /\ z.tx = x.tx /\ z.fs = x.fs /\ z.phase = "SEND" /\ z.route = "none"
    BY <1>2 DEF Exchange
  <2> HIDE DEF z
  <2>3. Sound(z)
    BY <2>2 DEF Sound, Responded
  <2> QED BY <1>1, <2>1, <2>2, <2>3 DEF Moves
<1>4. CASE x.tx # TxCap
  <2>1. TxCap - 1 - x.tx \in Nat
    BY <1>1, <1>4, SizeTypes
  <2>2. k \in Nat /\ k <= n /\ k <= TxCap - 1 - x.tx
    <3>1. CASE streamed
      BY <1>1, <2>1, <3>1
    <3>2. CASE ~streamed
      BY <1>1, <2>1, <3>2, MinOfTwo
    <3> QED BY <3>1, <3>2
  <2>3. Respond(x, n, streamed) = [y EXCEPT !.tx = @ + 1 + k, !.left = n - k]
    BY <1>4 DEF Respond
  <2> HIDE DEF k
  <2>4. x.tx + 1 + k \in 0..TxCap /\ n - k \in 0..MaxAnswer /\ x.tx <= x.tx + 1 + k
    BY <1>1, <2>1, <2>2, SizeTypes
  <2> DEFINE z == [y EXCEPT !.tx = @ + 1 + k, !.left = n - k]
  <2> HIDE DEF y
  <2>5. z \in Exchange /\ z.tx = x.tx + 1 + k /\ z.fs = x.fs /\ z.phase = "SEND" /\ z.route = "none"
    BY <1>2, <2>4 DEF Exchange
  <2> HIDE DEF z
  <2>6. Sound(z)
    BY <2>5 DEF Sound, Responded
  <2> QED BY <2>3, <2>4, <2>5, <2>6 DEF Moves, z
<1> QED BY <1>3, <1>4

LEMMA RefuseMoves ==
    ASSUME NEW x \in Exchange, x.left = 0, x.failed = FALSE, NEW busy \in BOOLEAN
    PROVE  Moves(x, Refuse(x), busy)
<1>1. 1 \in 0..MaxAnswer
  BY SizeTypes
<1> QED BY <1>1, RespondMoves DEF Refuse

LEMMA AnswersMove ==
    ASSUME NEW x \in Exchange, x.left = 0, x.failed = FALSE, NEW streamed \in BOOLEAN, NEW busy \in BOOLEAN,
           NEW y \in Answers(x, streamed)
    PROVE  Moves(x, y, busy)
  BY RespondMoves DEF Answers

LEMMA BodyMoves ==
    ASSUME NEW x \in Exchange, x.left = 0, x.failed = FALSE, NEW busy \in BOOLEAN,
           NEW y \in Exchange, y.phase = "BODY", y.tx = x.tx, y.left = x.left, y.failed = x.failed,
           y.fs = x.fs \/ busy = FALSE
    PROVE  Moves(x, y, busy)
<1>1. x.tx \in Nat
  BY DEF Exchange
<1> QED BY <1>1 DEF Moves, Sound, Responded

LEMMA AwaitsMove ==
    ASSUME NEW x \in Exchange, x.left = 0, x.failed = FALSE, NEW busy \in BOOLEAN, NEW route \in Routes,
           NEW y \in Awaits(x, route)
    PROVE  Moves(x, y, busy) /\ y.phase = "BODY" /\ y.left = 0 /\ y.failed = FALSE
<1>1. PICK b \in 0..MaxBody : y = [x EXCEPT !.phase = "BODY", !.route = route, !.body = b]
  BY DEF Awaits
<1>2. /\ y \in Exchange /\ y.phase = "BODY" /\ y.tx = x.tx /\ y.left = x.left /\ y.failed = x.failed /\ y.fs = x.fs
  BY <1>1, Values DEF Exchange
<1> QED BY <1>2, BodyMoves

LEMMA InvitedMove ==
    ASSUME NEW x \in Exchange, x.left = 0, x.failed = FALSE, NEW busy \in BOOLEAN,
           NEW y \in Invited(Awaits(x, "post"))
    PROVE  Moves(x, y, busy)
<1>1. "post" \in Routes
  BY Values
<1>2. CASE y \in Awaits(x, "post")
  BY <1>1, <1>2, AwaitsMove
<1>3. CASE y \notin Awaits(x, "post")
  <2>1. PICK z \in Awaits(x, "post") : y = [z EXCEPT !.tx = @ + 1] /\ z.tx < TxCap
    BY <1>3 DEF Invited
  <2>2. Moves(x, z, busy) /\ z.phase = "BODY" /\ z.left = 0 /\ z.failed = FALSE
    BY <1>1, AwaitsMove
  <2>3. z \in Exchange /\ z.tx \in 0..TxCap /\ x.tx \in 0..TxCap /\ x.tx <= z.tx
    BY <2>2 DEF Moves, Sound, Exchange
  <2>4. z.tx + 1 \in 0..TxCap /\ x.tx <= z.tx + 1
    BY <2>1, <2>3, SizeTypes
  <2>5. /\ y \in Exchange /\ y.phase = "BODY" /\ y.tx = z.tx + 1 /\ y.left = 0 /\ y.failed = FALSE /\ y.fs = z.fs
    BY <2>1, <2>2, <2>3, <2>4 DEF Exchange
  <2> QED BY <2>2, <2>4, <2>5 DEF Moves, Sound, Responded
<1> QED BY <1>2, <1>3

LEMMA RoutedMoves ==
    ASSUME NEW x \in Exchange, x.left = 0, x.failed = FALSE, NEW busy \in BOOLEAN, NEW y \in Routed(x, busy)
    PROVE  Moves(x, y, busy)
<1> DEFINE held == [x EXCEPT !.fs = TRUE]
           Whole == {Answers([held EXCEPT !.route = "file"], TRUE), {Refuse(held)},
                      UNION {Awaits([held EXCEPT !.wait = w], "flog") : w \in 0..MaxWait},
                      Invited(Awaits(held, "post"))}
<1>1. x.tx \in Nat /\ "status" \in Routes /\ "flog" \in Routes
  BY Values DEF Exchange
<1>2. CASE y \in Answers(x, FALSE) \/ y = Refuse(x)
  BY <1>2, AnswersMove, RefuseMoves
<1>3. CASE y \in Awaits(x, "status")
  BY <1>1, <1>3, AwaitsMove
<1>4. CASE y \in Invited(Awaits(x, "post"))
  BY <1>4, InvitedMove
<1>5. CASE ~busy /\ y \in UNION Whole
  <2>1. held \in Exchange /\ held.left = 0 /\ held.failed = FALSE /\ held.tx = x.tx
    BY DEF Exchange
  <2>2. ASSUME NEW z \in Exchange, z.tx = x.tx, Moves(z, y, busy) PROVE Moves(x, y, busy)
    BY <1>5, <2>2 DEF Moves
  <2>3. CASE y \in Answers([held EXCEPT !.route = "file"], TRUE)
    <3>1. /\ [held EXCEPT !.route = "file"] \in Exchange /\ [held EXCEPT !.route = "file"].left = 0
          /\ [held EXCEPT !.route = "file"].failed = FALSE /\ [held EXCEPT !.route = "file"].tx = x.tx
      BY Values DEF Exchange
    <3> QED BY <2>2, <2>3, <3>1, AnswersMove
  <2>4. CASE y = Refuse(held)
    BY <2>1, <2>2, <2>4, RefuseMoves
  <2>5. ASSUME NEW w \in 0..MaxWait, y \in Awaits([held EXCEPT !.wait = w], "flog") PROVE Moves(x, y, busy)
    <3> DEFINE z == [held EXCEPT !.wait = w]
    <3>1. z \in Exchange /\ z.left = 0 /\ z.failed = FALSE /\ z.tx = x.tx
      BY DEF Exchange
    <3> HIDE DEF z
    <3>2. y \in Awaits(z, "flog")
      BY <2>5 DEF z
    <3> QED BY <1>1, <2>2, <3>1, <3>2, AwaitsMove
  <2>6. CASE y \in Invited(Awaits(held, "post"))
    BY <2>1, <2>2, <2>6, InvitedMove
  <2>7. \A a, b, c, d : y \in UNION {a, b, c, d} => y \in a \/ y \in b \/ y \in c \/ y \in d
    OBVIOUS
  <2>8. \/ y \in Answers([held EXCEPT !.route = "file"], TRUE) \/ y \in {Refuse(held)}
        \/ y \in UNION {Awaits([held EXCEPT !.wait = w], "flog") : w \in 0..MaxWait}
        \/ y \in Invited(Awaits(held, "post"))
    BY <1>5, <2>7, Zenon
  <2>9. (\E w \in 0..MaxWait : y \in Awaits([held EXCEPT !.wait = w], "flog"))
           \/ y \notin UNION {Awaits([held EXCEPT !.wait = w], "flog") : w \in 0..MaxWait}
    OBVIOUS
  <2> QED BY <2>3, <2>4, <2>5, <2>6, <2>8, <2>9
<1>6. \/ y \in Answers(x, FALSE) \/ y \in Awaits(x, "status") \/ y \in Invited(Awaits(x, "post"))
      \/ busy /\ y = Refuse(x)
      \/ ~busy /\ y \in UNION Whole
  BY DEF Routed
<1> HIDE DEF held
<1> QED BY <1>2, <1>3, <1>4, <1>5, <1>6

\* What is read of rx changes nothing else.
LEMMA ReadKeeps ==
    ASSUME NEW x, Sound(x), NEW busy \in BOOLEAN, NEW y \in Exchange, y.phase = x.phase, y.tx = x.tx, y.left = x.left,
           y.failed = x.failed, y.fs = x.fs, y.route = x.route
    PROVE  Moves(x, y, busy)
<1>1. x.tx \in Nat
  BY DEF Sound, Exchange
<1> QED BY <1>1 DEF Moves, Sound, Responded

LEMMA ParsedMoves ==
    ASSUME NEW x, Sound(x), NEW busy \in BOOLEAN, NEW z \in Parsed(x, busy)
    PROVE  Moves(x, z, busy)
<1> DEFINE n == Min({x.rx, x.head})
           y == [x EXCEPT !.head = @ - n, !.rx = @ - n, !.consumed = @ \/ n > 0]
<1>1. x \in Exchange /\ x.rx \in 0..RxCap /\ x.head \in 0..HeadUnits /\ x.consumed \in BOOLEAN
  BY DEF Sound, Exchange
<1>2. n \in Nat /\ n <= x.rx /\ n <= x.head
  BY <1>1, SizeTypes, MinOfTwo
<1>3. x.head - n \in 0..HeadUnits /\ x.rx - n \in 0..RxCap /\ (x.consumed \/ n > 0) \in BOOLEAN
  <2> HIDE DEF n
  <2> QED BY <1>1, <1>2, SizeTypes
<1>4. /\ y \in Exchange /\ y.phase = x.phase /\ y.tx = x.tx /\ y.left = x.left /\ y.failed = x.failed /\ y.fs = x.fs
      /\ y.route = x.route
  <2> HIDE DEF n
  <2> QED BY <1>1, <1>3 DEF Exchange
<1>5. CASE x.phase # "HEAD"
  BY <1>1, <1>5, ReadKeeps DEF Parsed
<1>6. CASE x.phase = "HEAD"
  <2>1. y.left = 0 /\ y.failed = FALSE /\ y.route = "none"
    BY <1>4, <1>6 DEF Sound, Responded
  <2>2. Moves(x, y, busy)
    BY <1>4, ReadKeeps
  <2>3. z \in Routed(y, busy) \cup {y, Refuse(y), [y EXCEPT !.phase = "DONE"]}
    BY <1>6 DEF Parsed
  <2> HIDE DEF y
  <2>4. CASE z \in Routed(y, busy)
    BY <1>4, <2>1, <2>4, RoutedMoves DEF Moves
  <2>5. CASE z = y
    BY <2>2, <2>5
  <2>6. CASE z = Refuse(y)
    BY <1>4, <2>1, <2>6, RefuseMoves DEF Moves
  <2>7. CASE z = [y EXCEPT !.phase = "DONE"]
    <3>1. /\ z \in Exchange /\ z.phase = "DONE" /\ z.tx = x.tx /\ z.left = 0 /\ z.failed = FALSE /\ z.fs = x.fs
          /\ z.route = "none"
      BY <1>4, <2>1, <2>7, Values DEF Exchange
    <3>2. x.tx \in Nat
      BY <1>1 DEF Exchange
    <3> QED BY <3>1, <3>2 DEF Moves, Sound, Responded
  <2> QED BY <2>3, <2>4, <2>5, <2>6, <2>7
<1> QED BY <1>5, <1>6

LEMMA TakenMoves ==
    ASSUME NEW x, Sound(x), NEW busy \in BOOLEAN, NEW z \in Taken(x)
    PROVE  Moves(x, z, busy)
<1> DEFINE n == Min({x.rx, x.body})
           y == [x EXCEPT !.body = @ - n, !.rx = @ - n, !.consumed = @ \/ n > 0]
<1>1. x \in Exchange /\ x.rx \in 0..RxCap /\ x.body \in 0..MaxBody /\ x.consumed \in BOOLEAN
  BY DEF Sound, Exchange
<1>2. n \in Nat /\ n <= x.rx /\ n <= x.body
  BY <1>1, SizeTypes, MinOfTwo
<1>3. x.body - n \in 0..MaxBody /\ x.rx - n \in 0..RxCap /\ (x.consumed \/ n > 0) \in BOOLEAN
  <2> HIDE DEF n
  <2> QED BY <1>1, <1>2, SizeTypes
<1>4. /\ y \in Exchange /\ y.phase = x.phase /\ y.tx = x.tx /\ y.left = x.left /\ y.failed = x.failed /\ y.fs = x.fs
      /\ y.route = x.route
  <2> HIDE DEF n
  <2> QED BY <1>1, <1>3 DEF Exchange
<1>5. CASE x.phase # "BODY"
  BY <1>1, <1>5, ReadKeeps DEF Taken
<1>6. CASE x.phase = "BODY"
  <2>1. y.left = 0 /\ y.failed = FALSE
    BY <1>4, <1>6 DEF Sound, Responded
  <2>2. Moves(x, y, busy)
    BY <1>4, ReadKeeps
  <2>3. z \in {y, Refuse(y), [y EXCEPT !.phase = "APPLY"]}
    BY <1>6 DEF Taken
  <2> HIDE DEF y
  <2>4. CASE z = y
    BY <2>2, <2>4
  <2>5. CASE z = Refuse(y)
    BY <1>4, <2>1, <2>5, RefuseMoves DEF Moves
  <2>6. CASE z = [y EXCEPT !.phase = "APPLY"]
    <3>1. z \in Exchange /\ z.phase = "APPLY" /\ z.tx = x.tx /\ z.left = 0 /\ z.failed = FALSE /\ z.fs = x.fs
      BY <1>4, <2>1, <2>6, Values DEF Exchange
    <3>2. x.tx \in Nat
      BY <1>1 DEF Exchange
    <3> QED BY <3>1, <3>2 DEF Moves, Sound, Responded
  <2> QED BY <2>3, <2>4, <2>5, <2>6
<1> QED BY <1>5, <1>6

LEMMA AppliedMoves ==
    ASSUME NEW x, Sound(x), NEW busy \in BOOLEAN, NEW z \in Applied(x)
    PROVE  Moves(x, z, busy)
<1>1. x \in Exchange /\ x.wait \in 0..MaxWait
  BY DEF Sound, Exchange
<1>2. CASE x.phase # "APPLY" \/ x.route = "status"
  BY <1>1, <1>2, ReadKeeps DEF Applied
<1>3. CASE x.phase = "APPLY" /\ x.route # "status"
  <2>1. x.left = 0 /\ x.failed = FALSE
    BY <1>3 DEF Sound, Responded
  <2>2. CASE z \in Answers(x, TRUE) \/ z \in Answers(x, FALSE)
    BY <1>1, <2>1, <2>2, AnswersMove
  <2>3. CASE z = [x EXCEPT !.wait = @ - 1] /\ x.wait > 0
    <3>1. x.wait - 1 \in 0..MaxWait
      BY <1>1, <2>3, SizeTypes
    <3>2. /\ z \in Exchange /\ z.phase = x.phase /\ z.tx = x.tx /\ z.left = x.left /\ z.failed = x.failed /\ z.fs = x.fs
          /\ z.route = x.route
      BY <1>1, <2>3, <3>1 DEF Exchange
    <3> QED BY <3>2, ReadKeeps
  <2>4. z \in Answers(x, TRUE) \/ z \in Answers(x, FALSE) \/ (z = [x EXCEPT !.wait = @ - 1] /\ x.wait > 0)
    BY <1>3 DEF Applied
  <2> QED BY <2>2, <2>3, <2>4
<1> QED BY <1>2, <1>3

LEMMA PumpedMoves ==
    ASSUME NEW x, Sound(x), NEW busy \in BOOLEAN, NEW z \in Pumped(x)
    PROVE  Moves(x, z, busy)
<1> DEFINE k == Min({x.left, TxCap - x.tx})
           put(j) == [x EXCEPT !.tx = @ + j, !.left = @ - j]
           done(y) == IF y.phase = "SEND" /\ ~y.failed /\ y.left = 0 THEN [y EXCEPT !.phase = "DONE"] ELSE y
<1>1. x \in Exchange /\ x.tx \in 0..TxCap /\ x.left \in 0..MaxAnswer
  BY DEF Sound, Exchange
<1>2. k \in Nat /\ k <= x.left /\ k <= TxCap - x.tx
  <2>1. x.left \in Nat /\ TxCap - x.tx \in Nat
    BY <1>1, SizeTypes
  <2> QED BY <2>1, MinOfTwo
<1>3. CASE ~Responded(x) \/ x.failed
  BY <1>1, <1>3, ReadKeeps DEF Pumped
<1>4. CASE Responded(x) /\ x.failed = FALSE
  <2>1. z = done(put(k)) \/ \E j \in 0..(k - 1) : z = [put(j) EXCEPT !.failed = TRUE]
    BY <1>4 DEF Pumped
  <2> HIDE DEF k
  <2>2. ASSUME NEW j \in Nat, j <= k
        PROVE  /\ put(j) \in Exchange /\ put(j).tx = x.tx + j /\ put(j).left = x.left - j /\ put(j).phase = x.phase
               /\ put(j).fs = x.fs /\ put(j).route = x.route /\ put(j).failed = FALSE
               /\ x.tx <= x.tx + j
    <3>1. x.tx + j \in 0..TxCap /\ x.left - j \in 0..MaxAnswer /\ x.tx <= x.tx + j
      BY <1>1, <1>2, <2>2, SizeTypes
    <3> QED BY <1>1, <1>4, <3>1 DEF Exchange
  <2>3. x.phase \in {"SEND", "DONE"} /\ x.route = "none"
    BY <1>4 DEF Responded, Sound
  <2>4. CASE z = done(put(k))
    <3> DEFINE y == put(k)
    <3>1. /\ y \in Exchange /\ x.tx <= y.tx /\ y.phase = x.phase /\ y.fs = x.fs /\ y.route = "none" /\ y.failed = FALSE
          /\ (x.left = 0 => y.left = 0)
      <4>1. k <= k /\ (x.left = 0 => x.left - k = 0)
        BY <1>1, <1>2
      <4>2. /\ y \in Exchange /\ y.tx = x.tx + k /\ y.left = x.left - k /\ y.phase = x.phase
            /\ y.fs = x.fs /\ y.route = x.route /\ y.failed = FALSE /\ x.tx <= x.tx + k
        BY <1>2, <2>2, <4>1
      <4> HIDE DEF y
      <4> QED BY <2>3, <4>1, <4>2
    <3>2. z = IF y.phase = "SEND" /\ ~y.failed /\ y.left = 0 THEN [y EXCEPT !.phase = "DONE"] ELSE y
      BY <2>4
    <3> HIDE DEF y
    <3>3. CASE y.phase = "SEND" /\ y.left = 0
      <4>1. /\ z \in Exchange /\ z.phase = "DONE" /\ z.left = 0 /\ z.failed = FALSE /\ z.route = "none" /\ z.fs = y.fs
            /\ z.tx = y.tx
        BY <3>1, <3>2, <3>3, Values DEF Exchange
      <4> QED BY <3>1, <4>1 DEF Moves, Sound, Responded
    <3>4. CASE ~(y.phase = "SEND" /\ y.left = 0)
      <4>1. z = y
        BY <3>2, <3>4
      <4>2. y.phase = "DONE" => y.left = 0
        BY <3>1 DEF Sound
      <4> QED BY <2>3, <3>1, <4>1, <4>2 DEF Moves, Sound, Responded
    <3> QED BY <3>3, <3>4
  <2>5. ASSUME NEW j \in 0..(k - 1), z = [put(j) EXCEPT !.failed = TRUE] PROVE Moves(x, z, busy)
    <3> DEFINE y == put(j)
    <3>1. j \in Nat /\ j <= k /\ k # 0 /\ x.left # 0
      BY <1>1, <1>2, <2>5
    <3>2. /\ y \in Exchange /\ x.tx <= y.tx /\ y.phase = x.phase /\ y.fs = x.fs /\ y.route = "none"
      BY <2>2, <2>3, <3>1
    <3>3. z = [y EXCEPT !.failed = TRUE]
      BY <2>5
    <3> HIDE DEF y
    <3>4. z \in Exchange /\ z.phase = y.phase /\ z.route = "none" /\ z.fs = y.fs /\ z.tx = y.tx
      BY <3>2, <3>3 DEF Exchange
    <3>5. x.phase = "SEND"
      BY <2>3, <3>1 DEF Sound
    <3> QED BY <3>2, <3>4, <3>5 DEF Moves, Sound, Responded
  <2> QED BY <2>1, <2>4, <2>5
<1>5. x.failed \in BOOLEAN
  BY <1>1 DEF Exchange
<1> QED BY <1>3, <1>4, <1>5

LEMMA ServicedMoves ==
    ASSUME NEW x, Sound(x), NEW busy \in BOOLEAN, NEW z \in Serviced(x, busy)
    PROVE  Moves(x, z, busy)
<1>1. PICK y \in Parsed(x, busy) : \E t \in Taken(y) : \E w \in Applied(t) : z \in Pumped(w)
  BY DEF Serviced
<1>2. PICK t \in Taken(y) : \E w \in Applied(t) : z \in Pumped(w)
  BY <1>1
<1>3. PICK w \in Applied(t) : z \in Pumped(w)
  BY <1>2
<1>4. Moves(x, y, busy)
  BY ParsedMoves
<1>5. Sound(y)
  BY <1>4 DEF Moves
<1>6. Moves(y, t, busy)
  BY <1>5, TakenMoves
<1>7. Sound(t)
  BY <1>6 DEF Moves
<1>8. Moves(t, w, busy)
  BY <1>7, AppliedMoves
<1>9. Sound(w)
  BY <1>8 DEF Moves
<1>10. Moves(w, z, busy)
  BY <1>3, <1>9, PumpedMoves
<1>11. x \in Exchange /\ y \in Exchange /\ t \in Exchange /\ w \in Exchange
  BY <1>5, <1>7, <1>9 DEF Sound
<1>12. Moves(x, t, busy)
  BY <1>4, <1>6, <1>11, MovesOn
<1>13. Moves(x, w, busy)
  BY <1>8, <1>11, <1>12, MovesOn
<1> QED BY <1>10, <1>11, <1>13, MovesOn

LEMMA StatusMoves ==
    ASSUME NEW x, Sound(x), NEW busy \in BOOLEAN, NEW z \in StatusRendered(x)
    PROVE  Moves(x, z, busy)
<1>1. x \in Exchange
  BY DEF Sound
<1>2. CASE Responded(x)
  BY <1>1, <1>2, ReadKeeps DEF StatusRendered
<1>3. CASE ~Responded(x)
  BY <1>1, <1>3, AnswersMove DEF StatusRendered, Sound
<1> QED BY <1>2, <1>3

-----------------------------------------------------------------------------
(* The queue of the links that wait: one that leaves it leaves the others in   *)
(* their order.                                                              *)

Distinct(s) == \A i, j \in 1..Len(s) : s[i] = s[j] => i = j

LEMMA LeftInOrder ==
    ASSUME NEW S, NEW s \in Seq(S), Distinct(s), NEW e
    PROVE  LET t == RemoveFirst(s, e)
           IN  /\ t \in Seq(S) /\ Distinct(t)
               /\ \A i \in 1..Len(t) : t[i] # e /\ \E j \in 1..Len(s) : t[i] = s[j]
<1> DEFINE t == RemoveFirst(s, e)
<1>1. CASE ~ \E i \in 1..Len(s) : s[i] = e
  <2>1. t = s
    BY <1>1 DEF RemoveFirst
  <2> QED BY <1>1, <2>1
<1>2. CASE \E i \in 1..Len(s) : s[i] = e
  <2>1. PICK k \in 1..Len(s) : s[k] = e
    BY <1>2
  <2> DEFINE I == {i \in 1..Len(s) : s[i] = e}
  <2>2. I = {k}
    BY <2>1 DEF Distinct
  <2>3. Min(I) = k
    <3>1. I \in SUBSET Nat /\ I # {}
      BY <2>2
    <3> QED BY <2>2, <3>1, MinIsLeast
  <2>4. SelectInSeq(s, LAMBDA v : v = e) = k
    BY <2>2, <2>3 DEF SelectInSeq
  <2>5. t = SubSeq(s, 1, k - 1) \o SubSeq(s, k + 1, Len(s))
    BY <1>2, <2>4 DEF RemoveFirst, RemoveAt
  <2> DEFINE a == SubSeq(s, 1, k - 1)
             b == SubSeq(s, k + 1, Len(s))
  <2>6. PICK n \in Nat : n = Len(s) /\ k \in 1..n
    BY <2>1
  <2>7. a \in Seq(S) /\ Len(a) = k - 1 /\ \A i \in 1..(k - 1) : a[i] = s[i]
    <3>1. \A i \in 1..(k - 1) : s[i] \in S
      BY <2>6
    <3>2. /\ a \in Seq(S) /\ Len(a) = IF 1 <= k - 1 THEN (k - 1) - 1 + 1 ELSE 0
          /\ \A i \in 1..((k - 1) - 1 + 1) : a[i] = s[1 + i - 1]
      <4>1. k - 1 \in Int
        BY <2>6
      <4> QED BY <3>1, <4>1, SubSeqProperties
    <3>3. (k - 1) - 1 + 1 = k - 1 /\ \A i \in 1..(k - 1) : 1 + i - 1 = i
      BY <2>6
    <3>4. Len(a) = k - 1
      BY <2>6, <3>2
    <3> QED BY <3>2, <3>3, <3>4
  <2>8. b \in Seq(S) /\ Len(b) = n - k /\ \A i \in 1..(n - k) : b[i] = s[k + i]
    <3>1. \A i \in (k + 1)..n : s[i] \in S
      BY <2>6
    <3>2. /\ b \in Seq(S) /\ Len(b) = IF k + 1 <= n THEN n - (k + 1) + 1 ELSE 0
          /\ \A i \in 1..(n - (k + 1) + 1) : b[i] = s[(k + 1) + i - 1]
      <4>1. k + 1 \in Int
        BY <2>6
      <4> QED BY <2>6, <3>1, <4>1, SubSeqProperties
    <3>3. n - (k + 1) + 1 = n - k /\ \A i \in 1..(n - k) : (k + 1) + i - 1 = k + i
      BY <2>6
    <3>4. Len(b) = n - k
      BY <2>6, <3>2
    <3> QED BY <3>2, <3>3, <3>4
  <2> HIDE DEF a, b
  <2>9. /\ t \in Seq(S) /\ Len(t) = n - 1
        /\ \A i \in 1..(n - 1) : t[i] = IF i <= k - 1 THEN a[i] ELSE b[i - (k - 1)]
    <3>1. /\ a \o b \in Seq(S) /\ Len(a \o b) = Len(a) + Len(b)
          /\ \A i \in 1..(Len(a) + Len(b)) : (a \o b)[i] = IF i <= Len(a) THEN a[i] ELSE b[i - Len(a)]
      BY <2>7, <2>8, ConcatProperties
    <3>2. (k - 1) + (n - k) = n - 1
      BY <2>6
    <3>3. t = a \o b
      BY <2>5 DEF a, b
    <3> HIDE DEF t
    <3> QED BY <2>7, <2>8, <3>1, <3>2, <3>3
  <2> HIDE DEF t
  <2>10. \A i \in 1..(n - 1) : t[i] = s[IF i < k THEN i ELSE i + 1]
    <3> SUFFICES ASSUME NEW i \in 1..(n - 1) PROVE t[i] = s[IF i < k THEN i ELSE i + 1]
      OBVIOUS
    <3>1. CASE i < k
      <4>1. i <= k - 1 /\ i \in 1..(k - 1)
        BY <2>6, <3>1
      <4> QED BY <2>7, <2>9, <3>1, <4>1
    <3>2. CASE ~(i < k)
      <4>1. ~(i <= k - 1) /\ i - (k - 1) \in 1..(n - k) /\ k + (i - (k - 1)) = i + 1
        BY <2>6, <3>2
      <4> QED BY <2>8, <2>9, <3>2, <4>1
    <3> QED BY <3>1, <3>2
  <2>11. \A i \in 1..(n - 1) : (IF i < k THEN i ELSE i + 1) \in 1..n \ {k}
    BY <2>6
  <2>12. \A i \in 1..(n - 1) : t[i] # e /\ \E j \in 1..n : t[i] = s[j]
    BY <2>1, <2>6, <2>10, <2>11 DEF Distinct
  <2>13. Distinct(t)
    <3> SUFFICES ASSUME NEW i \in 1..(n - 1), NEW j \in 1..(n - 1), t[i] = t[j] PROVE i = j
      BY <2>9 DEF Distinct
    <3>1. (IF i < k THEN i ELSE i + 1) = (IF j < k THEN j ELSE j + 1)
      BY <2>6, <2>10, <2>11 DEF Distinct
    <3> QED BY <2>6, <3>1
  <2> QED BY <2>6, <2>9, <2>12, <2>13 DEF t
<1> QED BY <1>1, <1>2

-----------------------------------------------------------------------------
(* The inductive invariant.                                                  *)

Link == [phase : {"listening", "waiting", "bound", "draining"}, closing : BOOLEAN,
         flight : 0..Mss, x : Exchanges \cup {None}, fin : 0..TxCap, moved : BOOLEAN]

\* An exchange lent is one bound link's, and one that is not is as new.
Held ==
    /\ \A l \in Links : Bound(l) <=> link[l].x # None
    /\ \A l \in Links : Bound(l) => lent[link[l].x] = TRUE
    /\ \A e \in Exchanges : lent[e] = TRUE => \E l \in Links : link[l].x = e
    /\ \A l, m \in Links : link[l].x = link[m].x /\ link[l].x # None => l = m
    /\ \A e \in Exchanges : lent[e] = FALSE => ex[e] = Fresh /\ pending[e] = FALSE

\* What is in flight is still in the ring, and the FIN is behind the answer.
Sends ==
    /\ \A l \in Links : link[l].phase \in {"listening", "waiting"} => link[l].closing = FALSE /\ link[l].flight = 0
    /\ \A l \in Links : Bound(l) => link[l].flight <= ex[link[l].x].tx
    /\ \A l \in Links : Bound(l) /\ link[l].closing = TRUE =>
         ex[link[l].x].phase = "DONE" /\ link[l].fin = ex[link[l].x].tx

\* A unit waits only for an exchange whose status is to be rendered, or that was
\* refused since it was offered.
Polled(x) == x.route = "status" \/ x.phase \in {"SEND", "DONE"}

Runs == \A e \in Exchanges : Sound(ex[e]) /\ (pending[e] = TRUE => Polled(ex[e]))

\* The links that wait are in the queue once.
Queued == Distinct(waiting) /\ \A i \in 1..Len(waiting) : link[waiting[i]].phase = "waiting"

LetGo(l) == Bound(l) => ex[link[l].x].fs = FALSE

\* The links the pass has been over have let go of the log's filesystem; until
\* it has been over all, no more units than the pass allows have touched it.
Given ==
    /\ since <= UnitsPerPass
    /\ since > 0 =>
         /\ locked = TRUE
         /\ pc <= AtAttach => \A l \in Links : l < pc => LetGo(l)
         /\ pc = AtWork => since <= units \/ \A l \in Links : LetGo(l)

Inv == TypeOK /\ Held /\ Sends /\ Runs /\ Queued /\ Given

LEMMA NumbersTyped ==
    /\ Links \subseteq Nat /\ Exchanges \subseteq Nat /\ ~(None \in Exchanges)
    /\ \A l \in Links : l # AtNet /\ l # AtAttach /\ l # AtWork /\ l >= 1 /\ l <= NLinks
    /\ AtAttach \in Nat /\ AtWork \in Nat /\ AtNet < AtAttach /\ AtAttach < AtWork
  BY CountTypes DEF Links, Exchanges, None, AtNet, AtAttach, AtWork

\* What the stack is shown is in the ring, and a segment at most.
LEMMA ShownFits ==
    ASSUME NEW l \in Links, link[l] \in Link, NEW x \in Exchange, link[l].flight <= x.tx
    PROVE  Shown(l, x) \in 0..Mss /\ Shown(l, x) <= x.tx
<1>1. link[l].flight \in 0..Mss /\ x.tx \in 0..TxCap
  BY DEF Link, Exchange
<1>2. Min({x.tx, Mss}) \in 0..Mss /\ Min({x.tx, Mss}) <= x.tx
  BY <1>1, CountTypes, SizeTypes, MinOfTwo
<1> QED BY <1>1, <1>2, CountTypes, SizeTypes DEF Shown

-----------------------------------------------------------------------------
(* A step of one link: its exchange stays with it, or goes back.             *)

\* The other links, and what they hold, as they were.
OthersStay(l) ==
    \A m \in Links : m # l => link'[m] = link[m] /\ (Bound(m) => ex'[link[m].x] = ex[link[m].x])

\* The exchange the link has after what it does with it.
Bears(r, x, y) ==
    /\ Sound(y) /\ y.route = x.route /\ y.phase = x.phase
    /\ r.flight <= y.tx
    /\ r.closing = TRUE => y.phase = "DONE" /\ r.fin = y.tx

LEMMA LinkStays ==
    ASSUME TypeOK, Held, Sends, Runs, NEW l \in Links, NEW r \in Link, NEW y,
           link' = [link EXCEPT ![l] = r], lent' = lent, pending' = pending,
           r.x = link[l].x, r.phase = "bound" <=> Bound(l),
           r.phase \in {"listening", "waiting"} => r.closing = FALSE /\ r.flight = 0,
           Bound(l) => ex' = [ex EXCEPT ![link[l].x] = y] /\ Bears(r, ex[link[l].x], y),
           ~Bound(l) => ex' = ex
    PROVE  /\ link' \in [Links -> Link] /\ ex' \in [Exchanges -> Exchange]
           /\ Held' /\ Sends' /\ Runs' /\ OthersStay(l) /\ link'[l] = r
<1>1. link \in [Links -> Link] /\ ex \in [Exchanges -> Exchange] /\ lent \in [Exchanges -> BOOLEAN]
  BY DEF TypeOK, Link
<1>2. link' \in [Links -> Link] /\ link'[l] = r /\ \A m \in Links : m # l => link'[m] = link[m]
  BY <1>1
<1>3. ~(None \in Exchanges) /\ \A m \in Links : Bound(m) => link[m].x \in Exchanges
  BY <1>1, NumbersTyped DEF Held, Link
<1>4. /\ ex' \in [Exchanges -> Exchange]
      /\ Bound(l) => ex'[link[l].x] = y
      /\ \A e \in Exchanges : e # link[l].x => ex'[e] = ex[e]
  BY <1>1, <1>3 DEF Bears, Sound
<1>5. OthersStay(l)
  BY <1>2, <1>3, <1>4 DEF OthersStay, Held
<1>6. \A m \in Links : link'[m].x = link[m].x /\ (Bound(m)' <=> Bound(m))
  BY <1>2 DEF Bound
<1>7. ASSUME NEW e \in Exchanges, lent[e] = FALSE PROVE ex'[e] = ex[e]
  <2>1. Bound(l) => e # link[l].x
    BY <1>7 DEF Held
  <2> QED BY <1>4, <2>1
<1>8. Held'
  <2>1. \A m \in Links : (Bound(m)' <=> link'[m].x # None) /\ (Bound(m)' => lent'[link'[m].x] = TRUE)
    BY <1>6 DEF Held
  <2>2. \A e \in Exchanges : lent'[e] = TRUE => \E m \in Links : link'[m].x = e
    BY <1>6 DEF Held
  <2>3. \A m, n \in Links : link'[m].x = link'[n].x /\ link'[m].x # None => m = n
    BY <1>6 DEF Held
  <2>4. \A e \in Exchanges : lent'[e] = FALSE => ex'[e] = Fresh /\ pending'[e] = FALSE
    BY <1>7 DEF Held
  <2> QED BY <2>1, <2>2, <2>3, <2>4 DEF Held
<1>9. Sends'
  <2>1. \A m \in Links : m # l =>
          /\ link'[m].phase \in {"listening", "waiting"} => link'[m].closing = FALSE /\ link'[m].flight = 0
          /\ Bound(m)' => link'[m].flight <= ex'[link'[m].x].tx
          /\ Bound(m)' /\ link'[m].closing = TRUE => ex'[link'[m].x].phase = "DONE" /\ link'[m].fin = ex'[link'[m].x].tx
    BY <1>2, <1>5, <1>6 DEF Sends, OthersStay
  <2>2. /\ link'[l].phase \in {"listening", "waiting"} => link'[l].closing = FALSE /\ link'[l].flight = 0
        /\ Bound(l)' => link'[l].flight <= ex'[link'[l].x].tx
        /\ Bound(l)' /\ link'[l].closing = TRUE => ex'[link'[l].x].phase = "DONE" /\ link'[l].fin = ex'[link'[l].x].tx
    BY <1>2, <1>4, <1>6 DEF Bears
  <2> QED BY <2>1, <2>2 DEF Sends
<1>10. Runs'
  <2> SUFFICES ASSUME NEW e \in Exchanges PROVE Sound(ex'[e]) /\ (pending[e] = TRUE => Polled(ex'[e]))
    BY DEF Runs
  <2>1. CASE Bound(l) /\ e = link[l].x
    BY <1>4, <2>1 DEF Bears, Runs, Polled
  <2>2. CASE ~(Bound(l) /\ e = link[l].x)
    <3>1. ex'[e] = ex[e]
      BY <1>4, <2>2
    <3> QED BY <3>1 DEF Runs
  <2> QED BY <2>1, <2>2
<1> QED BY <1>2, <1>4, <1>5, <1>8, <1>9, <1>10

LEMMA LinkReleases ==
    ASSUME TypeOK, Held, Sends, Runs, NEW l \in Links, NEW r \in Link,
           link' = [link EXCEPT ![l] = r], r.x = None, r.phase # "bound",
           r.phase \in {"listening", "waiting"} => r.closing = FALSE /\ r.flight = 0,
           link[l].x = None => lent' = lent /\ pending' = pending /\ ex' = ex,
           link[l].x # None => Release(link[l].x)
    PROVE  /\ link' \in [Links -> Link] /\ ex' \in [Exchanges -> Exchange]
           /\ lent' \in [Exchanges -> BOOLEAN] /\ pending' \in [Exchanges -> BOOLEAN]
           /\ Held' /\ Sends' /\ Runs' /\ OthersStay(l) /\ link'[l] = r
<1>1. /\ link \in [Links -> Link] /\ ex \in [Exchanges -> Exchange] /\ lent \in [Exchanges -> BOOLEAN]
      /\ pending \in [Exchanges -> BOOLEAN]
  BY DEF TypeOK, Link
<1>2. link' \in [Links -> Link] /\ link'[l] = r /\ \A m \in Links : m # l => link'[m] = link[m]
  BY <1>1
<1>3. ~(None \in Exchanges) /\ \A m \in Links : link[m].x # None => link[m].x \in Exchanges /\ Bound(m)
  BY <1>1, NumbersTyped DEF Held, Link
<1>4. /\ ex' \in [Exchanges -> Exchange] /\ lent' \in [Exchanges -> BOOLEAN] /\ pending' \in [Exchanges -> BOOLEAN]
      /\ \A e \in Exchanges : e # link[l].x => ex'[e] = ex[e] /\ lent'[e] = lent[e] /\ pending'[e] = pending[e]
      /\ \A e \in Exchanges : e = link[l].x => ex'[e] = Fresh /\ lent'[e] = FALSE /\ pending'[e] = FALSE
  <2>1. CASE link[l].x = None
    BY <1>1, <1>3, <2>1
  <2>2. CASE link[l].x # None
    <3> DEFINE o == link[l].x
    <3>1. o \in Exchanges
      BY <1>3, <2>2
    <3>2. /\ lent' = [lent EXCEPT ![o] = FALSE] /\ pending' = [pending EXCEPT ![o] = FALSE]
          /\ ex' = [ex EXCEPT ![o] = Fresh]
      BY <2>2 DEF Release
    <3> HIDE DEF o
    <3>3. \A e \in Exchanges : e # o => ex'[e] = ex[e] /\ lent'[e] = lent[e] /\ pending'[e] = pending[e]
      BY <1>1, <3>2
    <3>4. ex'[o] = Fresh /\ lent'[o] = FALSE /\ pending'[o] = FALSE
      BY <1>1, <3>1, <3>2
    <3>5. ex' \in [Exchanges -> Exchange]
      BY <1>1, <3>2, FreshSound
    <3>6. lent' \in [Exchanges -> BOOLEAN] /\ pending' \in [Exchanges -> BOOLEAN]
      BY <1>1, <3>2
    <3> QED BY <3>3, <3>4, <3>5, <3>6 DEF o
  <2> QED BY <2>1, <2>2
<1>5. OthersStay(l)
  BY <1>2, <1>3, <1>4 DEF OthersStay, Held
<1>6. ~Bound(l)' /\ \A m \in Links : m # l => link'[m].x = link[m].x /\ (Bound(m)' <=> Bound(m))
  BY <1>2 DEF Bound
<1>7. Held'
  <2>1. \A m \in Links : Bound(m)' <=> link'[m].x # None
    BY <1>2, <1>6 DEF Held
  <2>2. ASSUME NEW m \in Links, Bound(m)' PROVE lent'[link'[m].x] = TRUE
    <3>1. m # l /\ Bound(m) /\ link'[m].x = link[m].x /\ link[m].x # None
      BY <1>6, <2>2 DEF Held
    <3>2. link[m].x # link[l].x /\ link[m].x \in Exchanges
      BY <1>3, <3>1 DEF Held
    <3> QED BY <1>4, <3>1, <3>2 DEF Held
  <2>3. ASSUME NEW e \in Exchanges, lent'[e] = TRUE PROVE \E m \in Links : link'[m].x = e
    <3>1. e # link[l].x /\ lent[e] = TRUE
      BY <1>4, <2>3
    <3>2. PICK m \in Links : link[m].x = e
      BY <3>1 DEF Held
    <3> QED BY <1>6, <3>1, <3>2
  <2>4. \A m, n \in Links : link'[m].x = link'[n].x /\ link'[m].x # None => m = n
    BY <1>2, <1>6 DEF Held
  <2>5. \A e \in Exchanges : lent'[e] = FALSE => ex'[e] = Fresh /\ pending'[e] = FALSE
    BY <1>4 DEF Held
  <2> QED BY <2>1, <2>2, <2>3, <2>4, <2>5 DEF Held
<1>8. Sends'
  BY <1>2, <1>5, <1>6 DEF Sends, OthersStay
<1>9. Runs'
  BY <1>4, FreshSound DEF Runs
<1> QED BY <1>2, <1>4, <1>5, <1>7, <1>8, <1>9

-----------------------------------------------------------------------------
(* What a step of one link leaves of the queue and of the log's turn.        *)

LEMMA QueueStays ==
    ASSUME TypeOK, Queued, NEW l \in Links, NEW r, OthersStay(l), link'[l] = r, waiting' = waiting,
           link[l].phase = "waiting" => r.phase = "waiting"
    PROVE  Queued'
<1>1. waiting \in Seq(Links)
  BY DEF TypeOK
<1>2. \A i \in 1..Len(waiting) : waiting[i] \in Links
  BY <1>1
<1>3. \A m \in Links : link[m].phase = "waiting" => link'[m].phase = "waiting"
  BY DEF OthersStay
<1>4. Distinct(waiting)'
  BY DEF Queued, Distinct
<1> QED BY <1>2, <1>3, <1>4 DEF Queued

\* While frames are taken no link of the pass has been seen to yet.
LEMMA GivenAtNet ==
    ASSUME Given, pc = AtNet, pc' = AtNet, since' = since, locked' = locked
    PROVE  Given'
<1>1. \A l \in Links : ~(l < pc')
  BY NumbersTyped DEF AtNet
<1>2. pc' # AtWork
  BY NumbersTyped DEF AtNet
<1> QED BY <1>1, <1>2 DEF Given

\* The pass is past one link more.
LEMMA PassGiven ==
    ASSUME TypeOK, Held, Given, NEW l \in Links, Passing(l), OthersStay(l), locked = TRUE => LetGo(l)'
    PROVE  Given'
<1>1. pc = l /\ pc' = l + 1 /\ since' = since /\ locked' = locked
  BY DEF Passing
<1>2. l \in Nat /\ NLinks \in Nat /\ l <= NLinks
  BY NumbersTyped, CountTypes
<1>3. pc <= AtAttach /\ pc' # AtWork
  BY <1>1, <1>2 DEF AtAttach, AtWork
<1>4. ASSUME since > 0, NEW m \in Links, m < l + 1 PROVE LetGo(m)'
  <2>1. CASE m = l
    BY <1>4, <2>1 DEF Given
  <2>2. CASE m # l
    <3>1. m < l
      BY <1>2, <1>4, <2>2, NumbersTyped
    <3>2. LetGo(m)
      BY <1>1, <1>3, <1>4, <3>1 DEF Given
    <3>3. link'[m] = link[m] /\ (Bound(m) => ex'[link[m].x] = ex[link[m].x])
      BY <2>2 DEF OthersStay
    <3> QED BY <3>2, <3>3 DEF LetGo, Bound
  <2> QED BY <2>1, <2>2
<1>5. since <= UnitsPerPass /\ (since > 0 => locked = TRUE)
  BY DEF Given
<1> QED BY <1>1, <1>3, <1>4, <1>5 DEF Given

\* A link freed listens anew, and holds nothing.
LEMMA FreedKeeps ==
    ASSUME TypeOK, Held, Sends, Runs, NEW l \in Links, Freed(l)
    PROVE  /\ link' \in [Links -> Link] /\ ex' \in [Exchanges -> Exchange]
           /\ lent' \in [Exchanges -> BOOLEAN] /\ pending' \in [Exchanges -> BOOLEAN]
           /\ tcp' \in [Links -> {"listen", "open", "peer_closed", "fin", "closed"}]
           /\ Held' /\ Sends' /\ Runs' /\ OthersStay(l) /\ link'[l] = Listening /\ LetGo(l)'
<1>1. /\ Listening \in Link /\ Listening.x = None /\ Listening.phase # "bound"
      /\ Listening.closing = FALSE /\ Listening.flight = 0 /\ Listening.phase = "listening"
  BY CountTypes, SizeTypes DEF Listening, Link
<1>2. link' = [link EXCEPT ![l] = Listening]
  BY DEF Freed
<1>3. link[l].x = None => lent' = lent /\ pending' = pending /\ ex' = ex
  BY DEF Freed
<1>4. link[l].x # None => Release(link[l].x)
  BY DEF Freed
<1>5. tcp' \in [Links -> {"listen", "open", "peer_closed", "fin", "closed"}]
  BY DEF Freed, TypeOK
<1>6. /\ link' \in [Links -> Link] /\ ex' \in [Exchanges -> Exchange]
      /\ lent' \in [Exchanges -> BOOLEAN] /\ pending' \in [Exchanges -> BOOLEAN]
      /\ Held' /\ Sends' /\ Runs' /\ OthersStay(l) /\ link'[l] = Listening
  BY <1>1, <1>2, <1>3, <1>4, LinkReleases
<1>7. LetGo(l)'
  BY <1>1, <1>6 DEF LetGo, Bound
<1> QED BY <1>5, <1>6, <1>7

-----------------------------------------------------------------------------
(* The peers and the stack.                                                  *)

TcpStates == {"listen", "open", "peer_closed", "fin", "closed"}

LEMMA LinkFacts ==
    ASSUME TypeOK, Held, Sends, Runs, NEW l \in Links
    PROVE  /\ link[l] \in Link /\ tcp[l] \in TcpStates
           /\ link[l].phase \in {"listening", "waiting", "bound", "draining"} /\ link[l].closing \in BOOLEAN
           /\ link[l].flight \in 0..Mss /\ link[l].fin \in 0..TxCap /\ link[l].x \in Exchanges \cup {None}
           /\ Bound(l) <=> link[l].phase = "bound"
           /\ Bound(l) => /\ link[l].x \in Exchanges
                          /\ Sound(ex[link[l].x]) /\ ex[link[l].x] \in Exchange
                          /\ ex[link[l].x].tx \in 0..TxCap
                          /\ Bears(link[l], ex[link[l].x], ex[link[l].x])
<1>1. /\ link[l] \in Link /\ tcp[l] \in TcpStates
      /\ link[l].phase \in {"listening", "waiting", "bound", "draining"} /\ link[l].closing \in BOOLEAN
      /\ link[l].flight \in 0..Mss /\ link[l].fin \in 0..TxCap /\ link[l].x \in Exchanges \cup {None}
  BY DEF TypeOK, Link, TcpStates
<1>2. Bound(l) => link[l].x \in Exchanges
  BY <1>1, NumbersTyped DEF Held
<1>3. Bound(l) => Sound(ex[link[l].x]) /\ ex[link[l].x] \in Exchange
  BY <1>2 DEF Runs, Sound
<1>4. Bound(l) => ex[link[l].x].tx \in 0..TxCap
  BY <1>3 DEF Exchange
<1>5. Bound(l) => Bears(link[l], ex[link[l].x], ex[link[l].x])
  BY <1>3 DEF Bears, Sends
<1> QED BY <1>1, <1>2, <1>3, <1>4, <1>5 DEF Bound

LEMMA StackStep ==
    ASSUME Inv, Taking, tcp' \in [Links -> TcpStates], NEW l \in Links, NEW r \in Link, NEW y,
           link' = [link EXCEPT ![l] = r], r.x = link[l].x, r.phase = link[l].phase,
           r.phase \in {"listening", "waiting"} => r.closing = FALSE /\ r.flight = 0,
           Bound(l) => ex' = [ex EXCEPT ![link[l].x] = y] /\ Bears(r, ex[link[l].x], y),
           ~Bound(l) => ex' = ex
    PROVE  Inv'
<1>1. /\ pc = AtNet /\ waiting' = waiting /\ lent' = lent /\ pending' = pending /\ turn' = turn /\ pc' = AtNet
      /\ units' = units /\ locked' = locked /\ since' = since
  BY DEF Taking
<1>2. TypeOK /\ Held /\ Sends /\ Runs /\ Queued /\ Given
  BY DEF Inv
<1>3. r.phase = "bound" <=> Bound(l)
  BY DEF Bound
<1>4. /\ link' \in [Links -> Link] /\ ex' \in [Exchanges -> Exchange]
      /\ Held' /\ Sends' /\ Runs' /\ OthersStay(l) /\ link'[l] = r
  BY <1>1, <1>2, <1>3, LinkStays
<1>5. Queued'
  BY <1>1, <1>2, <1>4, QueueStays
<1>6. Given'
  BY <1>1, <1>2, GivenAtNet
<1>7. TypeOK'
  BY <1>1, <1>2, <1>4 DEF TypeOK, Link, TcpStates
<1> QED BY <1>4, <1>5, <1>6, <1>7 DEF Inv

\* Something came, and the link takes note of it.
LEMMA MovedStep ==
    ASSUME Inv, Taking, tcp' \in [Links -> TcpStates], NEW l \in Links, Moved(l), NEW y,
           Bound(l) => ex' = [ex EXCEPT ![link[l].x] = y] /\ Bears(link[l], ex[link[l].x], y),
           ~Bound(l) => ex' = ex
    PROVE  Inv'
<1> DEFINE r == [link[l] EXCEPT !.moved = TRUE]
<1>1. TypeOK /\ Held /\ Sends /\ Runs
  BY DEF Inv
<1>2. link[l] \in Link
  BY <1>1, LinkFacts
<1>3. /\ r \in Link /\ r.x = link[l].x /\ r.phase = link[l].phase /\ r.closing = link[l].closing
      /\ r.flight = link[l].flight /\ r.fin = link[l].fin
  BY <1>2 DEF Link
<1>4. link' = [link EXCEPT ![l] = r]
  BY <1>1 DEF Moved, TypeOK
<1> HIDE DEF r
<1>5. r.phase \in {"listening", "waiting"} => r.closing = FALSE /\ r.flight = 0
  BY <1>1, <1>3 DEF Sends
<1>6. Bound(l) => ex' = [ex EXCEPT ![link[l].x] = y] /\ Bears(r, ex[link[l].x], y)
  BY <1>3 DEF Bears
<1> QED BY <1>3, <1>4, <1>5, <1>6, StackStep

LEMMA OnlyMoved ==
    ASSUME Inv, Taking, tcp' \in [Links -> TcpStates], NEW l \in Links, Moved(l), ex' = ex
    PROVE  Inv'
<1>1. TypeOK /\ Held /\ Sends /\ Runs
  BY DEF Inv
<1> DEFINE y == ex[link[l].x]
<1>2. Bound(l) => link[l].x \in Exchanges /\ Bears(link[l], ex[link[l].x], y)
  BY <1>1, LinkFacts
<1>3. Bound(l) => ex' = [ex EXCEPT ![link[l].x] = y]
  BY <1>1, <1>2 DEF TypeOK
<1> QED BY <1>2, <1>3, MovedStep

LEMMA TcpStep ==
    ASSUME TypeOK, NEW l \in Links, NEW state \in TcpStates, tcp' = [tcp EXCEPT ![l] = state] \/ tcp' = tcp
    PROVE  tcp' \in [Links -> TcpStates]
  BY DEF TypeOK, TcpStates

LEMMA PeerMoves ==
    ASSUME Inv, NEW l \in Links, Connect(l) \/ PeerCloses(l) \/ Dropped(l) \/ BothClosed(l)
    PROVE  Inv'
<1>1. TypeOK
  BY DEF Inv
<1>2. "open" \in TcpStates /\ "peer_closed" \in TcpStates /\ "closed" \in TcpStates
  BY DEF TcpStates
<1>3. CASE Connect(l)
  BY <1>1, <1>2, <1>3, TcpStep, OnlyMoved DEF Connect
<1>4. CASE PeerCloses(l)
  BY <1>1, <1>2, <1>4, TcpStep, OnlyMoved DEF PeerCloses
<1>5. CASE Dropped(l)
  BY <1>1, <1>2, <1>5, TcpStep, OnlyMoved DEF Dropped
<1>6. CASE BothClosed(l)
  BY <1>1, <1>2, <1>6, TcpStep, OnlyMoved DEF BothClosed
<1> QED BY <1>3, <1>4, <1>5, <1>6

LEMMA PeerSendsKeeps ==
    ASSUME Inv, NEW l \in Links, PeerSends(l)
    PROVE  Inv'
<1>1. TypeOK /\ Held /\ Sends /\ Runs
  BY DEF Inv
<1>2. Taking /\ Moved(l) /\ tcp' = tcp /\ tcp' \in [Links -> TcpStates]
  BY <1>1 DEF PeerSends, TypeOK, TcpStates
<1>3. CASE ex' = ex
  BY <1>2, <1>3, OnlyMoved
<1>4. CASE Carries(l) /\ ex[link[l].x].rx < RxCap /\ ex' = [ex EXCEPT ![link[l].x].rx = @ + 1]
  <2> DEFINE x == ex[link[l].x]
             y == [x EXCEPT !.rx = @ + 1]
  <2>1. /\ Bound(l) /\ link[l].closing = FALSE /\ link[l].x \in Exchanges /\ Sound(x) /\ x \in Exchange
        /\ Bears(link[l], x, x)
    BY <1>1, <1>4, LinkFacts DEF Carries
  <2>2. ex' = [ex EXCEPT ![link[l].x] = y]
    BY <1>1, <1>4, <2>1 DEF TypeOK
  <2>3. x.rx + 1 \in 0..RxCap
    <3>1. x.rx \in 0..RxCap
      BY <2>1 DEF Exchange
    <3> QED BY <1>4, <3>1, SizeTypes
  <2>4. x.rx < RxCap
    BY <1>4
  <2> HIDE DEF x
  <2>5. /\ y \in Exchange /\ y.phase = x.phase /\ y.tx = x.tx /\ y.left = x.left /\ y.failed = x.failed
        /\ y.route = x.route /\ y.fs = x.fs
    BY <2>1, <2>3 DEF Exchange
  <2> HIDE DEF y
  <2>6. Sound(y)
    BY <2>1, <2>5, ReadKeeps DEF Moves
  <2>7. Bears(link[l], x, y)
    BY <2>1, <2>5, <2>6 DEF Bears
  <2> QED BY <1>2, <2>1, <2>2, <2>7, MovedStep DEF x
<1> QED BY <1>3, <1>4 DEF PeerSends

LEMMA PeerAcksKeeps ==
    ASSUME Inv, NEW l \in Links, PeerAcks(l)
    PROVE  Inv'
<1>1. TypeOK /\ Held /\ Sends /\ Runs
  BY DEF Inv
<1>2. Taking /\ Bound(l) /\ tcp' \in [Links -> TcpStates]
  BY <1>1 DEF PeerAcks, TypeOK, TcpStates
<1>3. PICK n \in 1..link[l].flight :
        /\ ex' = [ex EXCEPT ![link[l].x].tx = @ - n]
        /\ link' = [link EXCEPT ![l].flight = @ - n, ![l].moved = TRUE,
                                ![l].fin = IF link[l].closing THEN @ - Min({n, @}) ELSE @]
  BY DEF PeerAcks
<1> DEFINE x == ex[link[l].x]
           y == [x EXCEPT !.tx = @ - n]
           unacked == link[l].flight - n
           fin == IF link[l].closing THEN link[l].fin - Min({n, link[l].fin}) ELSE link[l].fin
           r == [link[l] EXCEPT !.flight = unacked, !.moved = TRUE, !.fin = fin]
<1>4. /\ link[l] \in Link /\ link[l].phase = "bound" /\ link[l].closing \in BOOLEAN
      /\ link[l].flight \in 0..Mss /\ link[l].fin \in 0..TxCap /\ link[l].x \in Exchanges
      /\ Sound(x) /\ x \in Exchange /\ x.tx \in 0..TxCap /\ Bears(link[l], x, x)
  BY <1>1, <1>2, LinkFacts
<1>5. link' = [link EXCEPT ![l] = r]
  BY <1>1, <1>3 DEF TypeOK
<1>6. ex' = [ex EXCEPT ![link[l].x] = y]
  BY <1>1, <1>3, <1>4 DEF TypeOK
<1>7. n \in Nat /\ n <= link[l].flight /\ link[l].flight <= x.tx /\ (link[l].closing = TRUE => link[l].fin = x.tx)
  BY <1>3, <1>4, CountTypes DEF Bears
<1>8. x.tx - n \in 0..TxCap /\ unacked \in 0..Mss /\ unacked <= x.tx - n
  <2> HIDE DEF x
  <2> QED BY <1>4, <1>7, SizeTypes, CountTypes
<1>9. fin \in 0..TxCap /\ (link[l].closing = TRUE => fin = x.tx - n)
  <2>1. CASE link[l].closing = FALSE
    BY <1>4, <2>1
  <2>2. CASE link[l].closing = TRUE
    <3>1. link[l].fin = x.tx /\ n <= link[l].fin /\ link[l].fin \in Nat
      <4> HIDE DEF x
      <4> QED BY <1>4, <1>7, <2>2, SizeTypes, CountTypes
    <3>2. Min({n, link[l].fin}) = n
      <4>1. Min({n, link[l].fin}) \in {n, link[l].fin} /\ n <= link[l].fin /\ Min({n, link[l].fin}) <= n
        BY <1>7, <3>1, MinOfTwo
      <4> QED BY <1>7, <3>1, <4>1
    <3>3. fin = link[l].fin - n
      BY <2>2, <3>2
    <3> QED BY <1>8, <3>1, <3>3
  <2> QED BY <1>4, <2>1, <2>2
<1> HIDE DEF x, unacked, fin
<1>10. /\ r \in Link /\ r.x = link[l].x /\ r.phase = link[l].phase /\ r.closing = link[l].closing
       /\ r.flight = unacked /\ r.fin = fin
  BY <1>4, <1>8, <1>9 DEF Link
<1>11. /\ y \in Exchange /\ y.phase = x.phase /\ y.tx = x.tx - n /\ y.left = x.left /\ y.failed = x.failed
       /\ y.route = x.route
  BY <1>4, <1>8 DEF Exchange
<1> HIDE DEF r, y
<1>12. Bears(r, x, y)
  BY <1>4, <1>8, <1>9, <1>10, <1>11 DEF Bears, Sound, Responded
<1> QED BY <1>2, <1>4, <1>5, <1>6, <1>10, <1>12, StackStep DEF x

\* What is in flight anew is a part of the ring.
LEMMA FlightStep ==
    ASSUME Inv, Taking, tcp' = tcp, ex' = ex, NEW l \in Links, Bound(l), NEW unacked \in 0..Mss,
           unacked <= ex[link[l].x].tx, link' = [link EXCEPT ![l].flight = unacked]
    PROVE  Inv'
<1> DEFINE x == ex[link[l].x]
           r == [link[l] EXCEPT !.flight = unacked]
<1>1. TypeOK /\ Held /\ Sends /\ Runs
  BY DEF Inv
<1>2. /\ link[l] \in Link /\ link[l].x \in Exchanges /\ link[l].phase = "bound" /\ Bears(link[l], x, x)
  BY <1>1, LinkFacts
<1>3. tcp' \in [Links -> TcpStates]
  BY <1>1 DEF TypeOK, TcpStates
<1>4. link' = [link EXCEPT ![l] = r] /\ ex' = [ex EXCEPT ![link[l].x] = x]
  BY <1>1, <1>2 DEF TypeOK
<1>5. unacked <= x.tx
  OBVIOUS
<1> HIDE DEF x
<1>6. /\ r \in Link /\ r.x = link[l].x /\ r.phase = link[l].phase /\ r.closing = link[l].closing
      /\ r.flight = unacked /\ r.fin = link[l].fin
  BY <1>2 DEF Link
<1> HIDE DEF r
<1>7. Bears(r, x, x)
  BY <1>2, <1>5, <1>6 DEF Bears
<1> QED BY <1>2, <1>3, <1>4, <1>6, <1>7, StackStep DEF x

LEMMA RetransmitKeeps ==
    ASSUME Inv, NEW l \in Links, Retransmit(l)
    PROVE  Inv'
<1> DEFINE x == ex[link[l].x]
           unacked == IF x.tx < Mss /\ MoreToCome(x) THEN 0 ELSE Min({x.tx, Mss})
<1>1. TypeOK /\ Held /\ Sends /\ Runs
  BY DEF Inv
<1>2. Taking /\ Bound(l) /\ tcp' = tcp /\ ex' = ex /\ link' = [link EXCEPT ![l].flight = unacked]
  BY DEF Retransmit
<1>3. x.tx \in 0..TxCap
  BY <1>1, <1>2, LinkFacts
<1>4. unacked \in 0..Mss /\ unacked <= x.tx
  <2>1. Min({x.tx, Mss}) \in 0..Mss /\ Min({x.tx, Mss}) <= x.tx
    BY <1>3, CountTypes, SizeTypes, MinOfTwo
  <2> QED BY <1>3, <2>1, CountTypes, SizeTypes
<1> HIDE DEF unacked
<1> QED BY <1>2, <1>4, FlightStep

LEMMA StackSendsKeeps ==
    ASSUME Inv, NEW l \in Links, StackSends(l)
    PROVE  Inv'
<1>1. TypeOK /\ Held /\ Sends /\ Runs
  BY DEF Inv
<1>2. /\ Taking /\ Bound(l) /\ tcp' = tcp /\ ex' = ex
      /\ link' = [link EXCEPT ![l].flight = Shown(l, ex[link[l].x])]
  BY DEF StackSends
<1>3. link[l] \in Link /\ ex[link[l].x] \in Exchange /\ link[l].flight <= ex[link[l].x].tx
  BY <1>1, <1>2, LinkFacts DEF Bears
<1>4. Shown(l, ex[link[l].x]) \in 0..Mss /\ Shown(l, ex[link[l].x]) <= ex[link[l].x].tx
  BY <1>3, ShownFits
<1> QED BY <1>2, <1>4, FlightStep

\* The log takes its filesystem, or gives it back: no unit has touched it since.
LEMMA LogTakesKeeps == Inv /\ LogTakes => Inv'
<1> SUFFICES ASSUME Inv, LogTakes PROVE Inv'
  OBVIOUS
<1>1. since' = 0 /\ locked' \in BOOLEAN
  BY DEF LogTakes
<1>2. Given'
  BY <1>1, CountTypes DEF Given
<1>3. TypeOK'
  BY <1>1, CountTypes DEF Inv, TypeOK, LogTakes
<1>4. Held' /\ Sends' /\ Runs' /\ Queued'
  BY DEF Inv, Held, Sends, Runs, Queued, Distinct, Bound, LogTakes
<1> QED BY <1>2, <1>3, <1>4 DEF Inv

LEMMA PassBeginsKeeps == Inv /\ PassBegins => Inv'
<1> SUFFICES ASSUME Inv, PassBegins PROVE Inv'
  OBVIOUS
<1>1. pc' = 1 /\ since' = since /\ locked' = locked
  BY DEF PassBegins
<1>2. \A l \in Links : ~(l < pc')
  BY <1>1, NumbersTyped
<1>3. pc' # AtWork /\ pc' \in AtNet..AtWork
  BY <1>1, CountTypes DEF AtWork, AtNet
<1>4. Given'
  BY <1>1, <1>2, <1>3 DEF Inv, Given
<1>5. TypeOK'
  BY <1>3 DEF Inv, TypeOK, PassBegins
<1>6. Held' /\ Sends' /\ Runs' /\ Queued'
  BY DEF Inv, Held, Sends, Runs, Queued, Distinct, Bound, PassBegins
<1> QED BY <1>4, <1>5, <1>6 DEF Inv

-----------------------------------------------------------------------------
(* The pass.                                                                 *)

LEMMA PassTyped ==
    ASSUME TypeOK, NEW l \in Links, Passing(l), tcp' \in [Links -> TcpStates], waiting' \in Seq(Links),
           link' \in [Links -> Link], ex' \in [Exchanges -> Exchange],
           lent' \in [Exchanges -> BOOLEAN], pending' \in [Exchanges -> BOOLEAN]
    PROVE  TypeOK'
<1>1. pc' \in AtNet..AtWork
  <2>1. pc' = l + 1 /\ l \in Nat /\ l >= 1 /\ l <= NLinks /\ NLinks \in Nat
    BY NumbersTyped, CountTypes DEF Passing
  <2> QED BY <2>1 DEF AtNet, AtWork
<1> QED BY <1>1 DEF TypeOK, Passing, Link, TcpStates

\* The pass goes over a link that keeps what it has.
LEMMA PassStays ==
    ASSUME Inv, NEW l \in Links, Passing(l), tcp' \in [Links -> TcpStates], waiting' = waiting,
           NEW r \in Link, NEW y, link' = [link EXCEPT ![l] = r], lent' = lent, pending' = pending,
           r.x = link[l].x, r.phase = link[l].phase,
           r.phase \in {"listening", "waiting"} => r.closing = FALSE /\ r.flight = 0,
           Bound(l) => ex' = [ex EXCEPT ![link[l].x] = y] /\ Bears(r, ex[link[l].x], y),
           Bound(l) /\ locked = TRUE => y.fs = FALSE,
           ~Bound(l) => ex' = ex
    PROVE  Inv'
<1>1. TypeOK /\ Held /\ Sends /\ Runs /\ Queued /\ Given
  BY DEF Inv
<1>2. r.phase = "bound" <=> Bound(l)
  BY DEF Bound
<1>3. /\ link' \in [Links -> Link] /\ ex' \in [Exchanges -> Exchange]
      /\ Held' /\ Sends' /\ Runs' /\ OthersStay(l) /\ link'[l] = r
  BY <1>1, <1>2, LinkStays
<1>4. Queued'
  BY <1>1, <1>3, QueueStays
<1>5. locked = TRUE => LetGo(l)'
  <2> SUFFICES ASSUME locked = TRUE, Bound(l)' PROVE ex'[link'[l].x].fs = FALSE
    BY DEF LetGo
  <2>1. Bound(l) /\ link[l].x \in Exchanges
    BY <1>1, <1>2, <1>3, LinkFacts DEF Bound
  <2>2. ex'[link[l].x] = y
    BY <1>1, <2>1 DEF TypeOK
  <2> QED BY <1>3, <2>1, <2>2
<1>6. Given'
  BY <1>1, <1>3, <1>5, PassGiven
<1>7. TypeOK'
  BY <1>1, <1>3, PassTyped DEF TypeOK
<1> QED BY <1>3, <1>4, <1>6, <1>7 DEF Inv

\* It goes over one it frees.
LEMMA PassFrees ==
    ASSUME Inv, NEW l \in Links, Passing(l), Freed(l), waiting' = waiting, link[l].phase # "waiting"
    PROVE  Inv'
<1>1. TypeOK /\ Held /\ Sends /\ Runs /\ Queued /\ Given
  BY DEF Inv
<1>2. /\ link' \in [Links -> Link] /\ ex' \in [Exchanges -> Exchange]
      /\ lent' \in [Exchanges -> BOOLEAN] /\ pending' \in [Exchanges -> BOOLEAN]
      /\ tcp' \in [Links -> {"listen", "open", "peer_closed", "fin", "closed"}]
      /\ Held' /\ Sends' /\ Runs' /\ OthersStay(l) /\ link'[l] = Listening /\ LetGo(l)'
  BY <1>1, FreedKeeps
<1>3. Queued'
  BY <1>1, <1>2, QueueStays
<1>4. Given'
  BY <1>1, <1>2, PassGiven
<1>5. TypeOK'
  BY <1>1, <1>2, PassTyped DEF TypeOK, TcpStates
<1> QED BY <1>2, <1>3, <1>4, <1>5 DEF Inv

\* It goes over one of which it only takes note.
LEMMA PassNotes ==
    ASSUME Inv, NEW l \in Links, Passing(l), UNCHANGED <<tcp, waiting, ex, lent, pending>>,
           link' = [link EXCEPT ![l] = Noted(l)], Bound(l) /\ locked = TRUE => ex[link[l].x].fs = FALSE
    PROVE  Inv'
<1> DEFINE r == Noted(l)
           y == ex[link[l].x]
<1>1. TypeOK /\ Held /\ Sends /\ Runs
  BY DEF Inv
<1>2. link[l] \in Link /\ (Bound(l) => link[l].x \in Exchanges /\ Bears(link[l], y, y))
  BY <1>1, LinkFacts
<1>3. /\ r \in Link /\ r.x = link[l].x /\ r.phase = link[l].phase /\ r.closing = link[l].closing
      /\ r.flight = link[l].flight /\ r.fin = link[l].fin
  BY <1>2 DEF Link, Noted
<1>4. r.phase \in {"listening", "waiting"} => r.closing = FALSE /\ r.flight = 0
  BY <1>1, <1>3 DEF Sends
<1>5. Bound(l) => ex' = [ex EXCEPT ![link[l].x] = y] /\ Bears(r, y, y)
  BY <1>1, <1>2, <1>3 DEF Bears, TypeOK
<1>6. tcp' \in [Links -> TcpStates]
  BY <1>1 DEF TypeOK, TcpStates
<1> HIDE DEF r, y
<1>7. Bound(l) /\ locked = TRUE => y.fs = FALSE
  BY DEF y
<1> QED BY <1>3, <1>4, <1>5, <1>6, <1>7, PassStays DEF r, y

LEMMA Appended ==
    ASSUME TypeOK, Queued, NEW l \in Links, link[l].phase # "waiting", OthersStay(l),
           waiting' = Append(waiting, l), link'[l].phase = "waiting"
    PROVE  waiting' \in Seq(Links) /\ Queued'
<1>1. waiting \in Seq(Links)
  BY DEF TypeOK
<1>2. PICK n \in Nat : n = Len(waiting)
  BY <1>1
<1>3. /\ waiting' \in Seq(Links) /\ Len(waiting') = n + 1 /\ waiting'[n + 1] = l
      /\ \A i \in 1..n : waiting'[i] = waiting[i] /\ waiting[i] \in Links /\ waiting[i] # l
  <2>1. \A i \in 1..n : waiting[i] \in Links /\ waiting[i] # l
    BY <1>1, <1>2 DEF Queued
  <2> QED BY <1>1, <1>2, <2>1, AppendProperties
<1>4. \A i \in 1..(n + 1) : i \in 1..n \/ i = n + 1
  BY <1>2
<1>5. \A i \in 1..(n + 1) : link'[waiting'[i]].phase = "waiting"
  BY <1>2, <1>3, <1>4 DEF Queued, OthersStay
<1>6. Distinct(waiting)'
  <2>1. \A i, j \in 1..(n + 1) : waiting'[i] = waiting'[j] => i = j
    BY <1>2, <1>3, <1>4 DEF Queued, Distinct
  <2> QED BY <1>3, <2>1 DEF Distinct
<1> QED BY <1>3, <1>5, <1>6 DEF Queued

LEMMA PassListeningKeeps ==
    ASSUME Inv, NEW l \in Links, PassListening(l)
    PROVE  Inv'
<1>1. TypeOK /\ Held /\ Sends /\ Runs /\ Queued /\ Given
  BY DEF Inv
<1>2. Passing(l) /\ link[l].phase = "listening" /\ ~Bound(l) /\ link[l].x = None
  BY <1>1 DEF PassListening, Bound, Held
<1>3. CASE /\ link' = [link EXCEPT ![l] = [Noted(l) EXCEPT !.phase = "waiting"]]
           /\ waiting' = Append(waiting, l) /\ UNCHANGED <<tcp, ex, lent, pending>>
  <2> DEFINE r == [Noted(l) EXCEPT !.phase = "waiting"]
  <2>1. link[l] \in Link /\ link[l].closing = FALSE /\ link[l].flight = 0
    BY <1>1, <1>2, LinkFacts DEF Sends
  <2>2. r \in Link /\ r.x = link[l].x /\ r.phase = "waiting" /\ r.closing = FALSE /\ r.flight = 0
    BY <2>1 DEF Link, Noted
  <2>3. link' = [link EXCEPT ![l] = r]
    BY <1>3
  <2> HIDE DEF r
  <2>4. /\ link' \in [Links -> Link] /\ ex' \in [Exchanges -> Exchange]
        /\ Held' /\ Sends' /\ Runs' /\ OthersStay(l) /\ link'[l] = r
    BY <1>1, <1>2, <1>3, <2>2, <2>3, LinkStays
  <2>5. waiting' \in Seq(Links) /\ Queued'
    BY <1>1, <1>2, <1>3, <2>2, <2>4, Appended
  <2>6. LetGo(l)'
    BY <2>2, <2>4 DEF LetGo, Bound
  <2>7. Given'
    BY <1>1, <1>2, <2>4, <2>6, PassGiven
  <2>8. TypeOK'
    BY <1>1, <1>2, <1>3, <2>4, <2>5, PassTyped DEF TypeOK, TcpStates
  <2> QED BY <2>4, <2>5, <2>7, <2>8 DEF Inv
<1>4. CASE Freed(l) /\ UNCHANGED waiting
  BY <1>2, <1>4, PassFrees
<1>5. CASE UNCHANGED <<tcp, link, waiting, ex, lent, pending>>
  <2> DEFINE r == link[l]
  <2>1. r \in Link /\ link' = [link EXCEPT ![l] = r] /\ tcp' \in [Links -> TcpStates]
    BY <1>1, <1>5, LinkFacts DEF TypeOK, TcpStates
  <2>2. r.phase \in {"listening", "waiting"} => r.closing = FALSE /\ r.flight = 0
    BY <1>1 DEF Sends
  <2> QED BY <1>2, <1>5, <2>1, <2>2, PassStays
<1> QED BY <1>3, <1>4, <1>5 DEF PassListening

LEMMA PassWaitingKeeps ==
    ASSUME Inv, NEW l \in Links, NEW late \in BOOLEAN, PassWaiting(l, late)
    PROVE  Inv'
<1>1. TypeOK /\ Held /\ Sends /\ Runs /\ Queued /\ Given
  BY DEF Inv
<1>2. Passing(l) /\ link[l].phase = "waiting" /\ ~Bound(l)
  BY DEF PassWaiting, Bound
<1>3. CASE link' = [link EXCEPT ![l] = Noted(l)] /\ UNCHANGED <<tcp, waiting, ex, lent, pending>>
  BY <1>2, <1>3, PassNotes
<1>4. CASE Freed(l) /\ waiting' = RemoveFirst(waiting, l)
  <2>1. /\ link' \in [Links -> Link] /\ ex' \in [Exchanges -> Exchange]
        /\ lent' \in [Exchanges -> BOOLEAN] /\ pending' \in [Exchanges -> BOOLEAN]
        /\ tcp' \in [Links -> {"listen", "open", "peer_closed", "fin", "closed"}]
        /\ Held' /\ Sends' /\ Runs' /\ OthersStay(l) /\ link'[l] = Listening /\ LetGo(l)'
    BY <1>1, <1>4, FreedKeeps
  <2>2. waiting \in Seq(Links) /\ Distinct(waiting)
    BY <1>1 DEF TypeOK, Queued
  <2>3. /\ waiting' \in Seq(Links) /\ Distinct(RemoveFirst(waiting, l))
        /\ \A i \in 1..Len(waiting') : waiting'[i] # l /\ \E j \in 1..Len(waiting) : waiting'[i] = waiting[j]
    BY <1>4, <2>2, LeftInOrder
  <2>4. Queued'
    <3>1. \A i \in 1..Len(waiting') : waiting'[i] \in Links /\ link[waiting'[i]].phase = "waiting" /\ waiting'[i] # l
      BY <1>1, <2>2, <2>3 DEF Queued
    <3>2. Distinct(waiting)'
      BY <1>4, <2>3 DEF Distinct
    <3> QED BY <2>1, <3>1, <3>2 DEF Queued, OthersStay
  <2>5. Given'
    BY <1>1, <1>2, <2>1, PassGiven
  <2>6. TypeOK'
    BY <1>1, <1>2, <2>1, <2>3, PassTyped DEF TcpStates
  <2> QED BY <2>1, <2>4, <2>5, <2>6 DEF Inv
<1> QED BY <1>3, <1>4 DEF PassWaiting

LEMMA PassDrainingKeeps ==
    ASSUME Inv, NEW l \in Links, NEW late \in BOOLEAN, PassDraining(l, late)
    PROVE  Inv'
<1>1. Passing(l) /\ link[l].phase = "draining" /\ ~Bound(l) /\ waiting' = waiting
  BY DEF PassDraining, Bound
<1>2. CASE Freed(l)
  BY <1>1, <1>2, PassFrees
<1>3. CASE link' = [link EXCEPT ![l] = Noted(l)] /\ UNCHANGED <<tcp, ex, lent, pending>>
  BY <1>1, <1>3, PassNotes
<1> QED BY <1>2, <1>3 DEF PassDraining

\* A link whose answer is all acknowledged gives its exchange back and drains.
LEMMA ClosingKeeps ==
    ASSUME Inv, NEW l \in Links, NEW late \in BOOLEAN, Passing(l), Bound(l), ~MustLetGo(l), Closing(l, late),
           waiting' = waiting
    PROVE  Inv'
<1> DEFINE o == link[l].x
<1>1. TypeOK /\ Held /\ Sends /\ Runs /\ Queued /\ Given
  BY DEF Inv
<1>2. /\ link[l] \in Link /\ link[l].phase = "bound" /\ o \in Exchanges /\ o # None /\ ex[o] \in Exchange
  BY <1>1, LinkFacts DEF Held
<1>3. locked = TRUE => ex[o].fs = FALSE
  BY <1>2 DEF MustLetGo, Exchange
<1>4. CASE /\ Release(o) /\ UNCHANGED tcp
           /\ link' = [link EXCEPT ![l] = [Noted(l) EXCEPT !.phase = "draining", !.x = None]]
  <2> DEFINE r == [Noted(l) EXCEPT !.phase = "draining", !.x = None]
  <2>1. r \in Link /\ r.x = None /\ r.phase = "draining"
    BY <1>2 DEF Link, Noted
  <2>2. link' = [link EXCEPT ![l] = r]
    BY <1>4
  <2> HIDE DEF r
  <2>3. /\ link' \in [Links -> Link] /\ ex' \in [Exchanges -> Exchange]
        /\ lent' \in [Exchanges -> BOOLEAN] /\ pending' \in [Exchanges -> BOOLEAN]
        /\ Held' /\ Sends' /\ Runs' /\ OthersStay(l) /\ link'[l] = r
    BY <1>1, <1>2, <1>4, <2>1, <2>2, LinkReleases
  <2>4. Queued'
    BY <1>1, <1>2, <2>1, <2>3, QueueStays
  <2>5. LetGo(l)'
    BY <2>1, <2>3 DEF LetGo, Bound
  <2>6. Given'
    BY <1>1, <2>3, <2>5, PassGiven
  <2>7. tcp' \in [Links -> TcpStates] /\ waiting' \in Seq(Links)
    BY <1>1, <1>4 DEF TypeOK, TcpStates
  <2>8. TypeOK'
    BY <1>1, <2>3, <2>7, PassTyped
  <2> QED BY <2>3, <2>4, <2>6, <2>8 DEF Inv
<1>5. CASE Freed(l)
  BY <1>2, <1>5, PassFrees
<1>6. CASE link' = [link EXCEPT ![l] = Noted(l)] /\ UNCHANGED <<tcp, ex, lent, pending>>
  BY <1>3, <1>6, PassNotes
<1> QED BY <1>4, <1>5, <1>6 DEF Closing

\* The output goes on, and the FIN is put right behind the last of it.
LEMMA CarriedKeeps ==
    ASSUME Inv, NEW l \in Links, NEW late \in BOOLEAN, Passing(l), Bound(l), ~MustLetGo(l), ~link[l].closing,
           Carried(l, late), waiting' = waiting
    PROVE  Inv'
<1> DEFINE o == link[l].x
           x == [ex[o] EXCEPT !.eof = tcp[l] = "peer_closed", !.consumed = FALSE]
<1>1. TypeOK /\ Held /\ Sends /\ Runs /\ Queued /\ Given
  BY DEF Inv
<1>2. /\ link[l] \in Link /\ link[l].phase = "bound" /\ o \in Exchanges /\ o # None
      /\ Sound(ex[o]) /\ ex[o] \in Exchange /\ link[l].closing = FALSE
      /\ link[l].flight \in 0..Mss /\ link[l].flight <= ex[o].tx
  BY <1>1, LinkFacts DEF Held, Bears
<1>3. locked = TRUE => ex[o].fs = FALSE
  BY <1>2 DEF MustLetGo, Exchange
<1>4. /\ x \in Exchange /\ x.phase = ex[o].phase /\ x.tx = ex[o].tx /\ x.left = ex[o].left /\ x.failed = ex[o].failed
      /\ x.fs = ex[o].fs /\ x.route = ex[o].route /\ x.tx \in 0..TxCap
  <2>1. (tcp[l] = "peer_closed") \in BOOLEAN
    OBVIOUS
  <2> QED BY <1>2, <2>1 DEF Exchange
<1>5. PICK unacked \in {link[l].flight, Shown(l, x)} :
        \/ Freed(l)
        \/ /\ Ends(x, unacked)
           /\ link' = [link EXCEPT ![l] = [Noted(l) EXCEPT !.flight = unacked, !.closing = TRUE, !.fin = unacked]]
           /\ tcp' = [tcp EXCEPT ![l] = "fin"]
           /\ ex' = [ex EXCEPT ![o] = x]
           /\ UNCHANGED <<lent, pending>>
        \/ /\ link' = [link EXCEPT ![l] = [Noted(l) EXCEPT !.flight = unacked]]
           /\ ex' = [ex EXCEPT ![o] = x]
           /\ UNCHANGED <<tcp, lent, pending>>
  BY DEF Carried
<1> HIDE DEF x
<1>6. unacked \in 0..Mss /\ unacked <= x.tx
  BY <1>2, <1>4, ShownFits
<1>7. Sound(x)
  BY <1>2, <1>4, ReadKeeps DEF Moves
<1>8. Bound(l) /\ locked = TRUE => x.fs = FALSE
  BY <1>3, <1>4
<1>9. CASE Freed(l)
  BY <1>2, <1>9, PassFrees
<1>10. CASE /\ Ends(x, unacked)
            /\ link' = [link EXCEPT ![l] = [Noted(l) EXCEPT !.flight = unacked, !.closing = TRUE, !.fin = unacked]]
            /\ tcp' = [tcp EXCEPT ![l] = "fin"]
            /\ ex' = [ex EXCEPT ![o] = x]
            /\ UNCHANGED <<lent, pending>>
  <2> DEFINE r == [Noted(l) EXCEPT !.flight = unacked, !.closing = TRUE, !.fin = unacked]
  <2>1. x.phase = "DONE" /\ unacked = x.tx /\ unacked \in 0..TxCap
    BY <1>4, <1>10 DEF Ends
  <2>2. /\ r \in Link /\ r.x = link[l].x /\ r.phase = link[l].phase /\ r.closing = TRUE
        /\ r.flight = unacked /\ r.fin = unacked
    BY <1>2, <1>6, <2>1 DEF Link, Noted
  <2>3. link' = [link EXCEPT ![l] = r] /\ tcp' \in [Links -> TcpStates]
    BY <1>1, <1>10 DEF TypeOK, TcpStates
  <2> HIDE DEF r
  <2>4. Bears(r, ex[o], x)
    BY <1>4, <1>6, <1>7, <2>1, <2>2 DEF Bears
  <2> QED BY <1>2, <1>8, <1>10, <2>2, <2>3, <2>4, PassStays
<1>11. CASE /\ link' = [link EXCEPT ![l] = [Noted(l) EXCEPT !.flight = unacked]]
            /\ ex' = [ex EXCEPT ![o] = x]
            /\ UNCHANGED <<tcp, lent, pending>>
  <2> DEFINE r == [Noted(l) EXCEPT !.flight = unacked]
  <2>1. r \in Link /\ r.x = link[l].x /\ r.phase = link[l].phase /\ r.closing = FALSE /\ r.flight = unacked
    BY <1>2, <1>6 DEF Link, Noted
  <2>2. link' = [link EXCEPT ![l] = r] /\ tcp' \in [Links -> TcpStates]
    BY <1>1, <1>11 DEF TypeOK, TcpStates
  <2> HIDE DEF r
  <2>3. Bears(r, ex[o], x)
    BY <1>4, <1>6, <1>7, <2>1 DEF Bears
  <2> QED BY <1>2, <1>8, <1>11, <2>1, <2>2, <2>3, PassStays
<1> QED BY <1>5, <1>9, <1>10, <1>11

LEMMA PassBoundKeeps ==
    ASSUME Inv, NEW l \in Links, NEW late \in BOOLEAN, PassBound(l, late)
    PROVE  Inv'
<1>1. Passing(l) /\ Bound(l) /\ link[l].phase # "waiting" /\ waiting' = waiting
  BY DEF PassBound, Bound
<1>2. CASE Freed(l)
  BY <1>1, <1>2, PassFrees
<1>3. CASE ~MustLetGo(l) /\ Closing(l, late)
  BY <1>1, <1>3, ClosingKeeps
<1>4. CASE ~MustLetGo(l) /\ ~link[l].closing /\ Carried(l, late)
  BY <1>1, <1>4, CarriedKeeps
<1> QED BY <1>2, <1>3, <1>4 DEF PassBound

LEMMA PassKeeps == Inv /\ Pass => Inv'
<1> SUFFICES ASSUME Inv, NEW l \in Links, PassListening(l) \/ \E late \in BOOLEAN : Timed(l, late) PROVE Inv'
  BY DEF Pass
<1>1. CASE PassListening(l)
  BY <1>1, PassListeningKeeps
<1>2. ASSUME NEW late \in BOOLEAN, Timed(l, late) PROVE Inv'
  BY <1>2, PassWaitingKeeps, PassBoundKeeps, PassDrainingKeeps DEF Timed
<1> QED BY <1>1, <1>2

-----------------------------------------------------------------------------
(* After the pass: an exchange for those that wait, and the units of work.   *)

LEMMA AttachKeeps == Inv /\ Attach => Inv'
<1> SUFFICES ASSUME Inv, Attach PROVE Inv'
  OBVIOUS
<1>1. TypeOK /\ Held /\ Sends /\ Runs /\ Queued /\ Given
  BY DEF Inv
<1>2. /\ pc = AtAttach /\ tcp' = tcp /\ pending' = pending /\ turn' = turn /\ locked' = locked /\ since' = since
  BY DEF Attach
<1>3. \A l \in Links : l < AtAttach
  <2>1. \A l \in Links : l \in Nat /\ l <= NLinks
    BY NumbersTyped
  <2> QED BY <2>1, CountTypes DEF AtAttach
<1>4. since > 0 => \A l \in Links : LetGo(l)
  <2>1. pc <= AtAttach /\ AtAttach \in Nat
    BY <1>2, NumbersTyped
  <2> QED BY <1>1, <1>2, <1>3, <2>1 DEF Given
<1>5. CASE waiting # <<>> /\ Free # {}
  <2> DEFINE l == Head(waiting)
             e == Min(Free)
  <2>1. /\ link' = [link EXCEPT ![l].phase = "bound", ![l].x = e]
        /\ waiting' = Tail(waiting)
        /\ lent' = [lent EXCEPT ![e] = TRUE]
        /\ ex' = [ex EXCEPT ![e] = Fresh]
        /\ pc' = pc /\ units' = units
    BY <1>5 DEF Attach
  <2>2. e \in Exchanges /\ lent[e] = FALSE /\ e # None
    <3>1. Free \in SUBSET Nat /\ Free \subseteq Exchanges
      BY NumbersTyped DEF Free
    <3>2. e \in Free
      BY <1>5, <3>1, MinIsLeast
    <3>3. lent[e] \in BOOLEAN
      BY <1>1, <3>1, <3>2 DEF TypeOK
    <3> QED BY <3>1, <3>2, <3>3, NumbersTyped DEF Free
  <2> HIDE DEF e
  <2>3. PICK n \in Nat : n + 1 = Len(waiting)
    <3>1. Len(waiting) \in Nat /\ Len(waiting) # 0
      BY <1>1, <1>5, EmptySeq DEF TypeOK
    <3>2. Len(waiting) - 1 \in Nat /\ (Len(waiting) - 1) + 1 = Len(waiting)
      BY <3>1
    <3> QED BY <3>2
  <2>4. /\ l \in Links /\ l = waiting[1] /\ Tail(waiting) \in Seq(Links) /\ Len(Tail(waiting)) = n
        /\ \A i \in 1..n : Tail(waiting)[i] = waiting[i + 1] /\ waiting[i + 1] \in Links
    <3>1. waiting \in Seq(Links) /\ 1 \in 1..(n + 1) /\ \A i \in 1..n : i + 1 \in 1..(n + 1)
      BY <1>1 DEF TypeOK
    <3>2. /\ l = waiting[1] /\ Tail(waiting) \in Seq(Links) /\ Len(Tail(waiting)) = Len(waiting) - 1
          /\ \A i \in 1..Len(Tail(waiting)) : Tail(waiting)[i] = waiting[i + 1]
      BY <1>5, <3>1, HeadTailProperties
    <3>3. \A i \in 1..(n + 1) : waiting[i] \in Links
      BY <2>3, <3>1
    <3> HIDE DEF l
    <3> QED BY <2>3, <3>1, <3>2, <3>3
  <2>5. link[l].phase = "waiting"
    <3>1. 1 \in 1..Len(waiting)
      BY <2>3
    <3> HIDE DEF l
    <3> QED BY <1>1, <2>4, <3>1 DEF Queued
  <2> HIDE DEF l
  <2> DEFINE r == [link[l] EXCEPT !.phase = "bound", !.x = e]
  <2>6. link[l] \in Link /\ link[l].closing = FALSE /\ link[l].flight = 0 /\ link[l].x = None /\ ~Bound(l)
    BY <1>1, <2>4, <2>5, LinkFacts DEF Sends, Held, Bound
  <2>7. r \in Link /\ r.phase = "bound" /\ r.x = e /\ r.closing = FALSE /\ r.flight = 0
    BY <2>2, <2>6 DEF Link
  <2>8. link' = [link EXCEPT ![l] = r]
    BY <1>1, <2>1, <2>4 DEF TypeOK
  <2> HIDE DEF r
  <2>9. link' \in [Links -> Link] /\ link'[l] = r /\ \A m \in Links : m # l => link'[m] = link[m]
    BY <1>1, <2>4, <2>7, <2>8 DEF TypeOK, Link
  <2>10. /\ ex' \in [Exchanges -> Exchange] /\ ex'[e] = Fresh /\ \A o \in Exchanges : o # e => ex'[o] = ex[o]
         /\ lent' \in [Exchanges -> BOOLEAN] /\ lent'[e] = TRUE /\ \A o \in Exchanges : o # e => lent'[o] = lent[o]
    BY <1>1, <2>1, <2>2, FreshSound DEF TypeOK
  <2>11. \A m \in Links : link[m].x # e
    BY <1>1, <2>2 DEF Held
  <2>12. Held'
    <3>1. \A m \in Links : (Bound(m)' <=> link'[m].x # None)
      BY <1>1, <2>2, <2>7, <2>9 DEF Held, Bound
    <3>2. ASSUME NEW m \in Links, Bound(m)' PROVE lent'[link'[m].x] = TRUE
      <4>1. CASE m = l
        BY <2>7, <2>9, <2>10, <4>1
      <4>2. CASE m # l
        <5>1. Bound(m) /\ link'[m] = link[m]
          BY <2>9, <3>2, <4>2 DEF Bound
        <5>2. link[m].x \in Exchanges /\ link[m].x # e /\ lent[link[m].x] = TRUE
          BY <1>1, <2>11, <5>1, LinkFacts DEF Held
        <5> QED BY <2>10, <5>1, <5>2
      <4> QED BY <4>1, <4>2
    <3>3. ASSUME NEW o \in Exchanges, lent'[o] = TRUE PROVE \E m \in Links : link'[m].x = o
      <4>1. CASE o = e
        BY <2>4, <2>7, <2>9, <4>1
      <4>2. CASE o # e
        <5>1. PICK m \in Links : link[m].x = o
          BY <1>1, <2>10, <3>3, <4>2 DEF Held
        <5>2. m # l
          BY <2>6, <5>1, NumbersTyped
        <5> QED BY <2>9, <5>1, <5>2
      <4> QED BY <4>1, <4>2
    <3>4. \A m, k \in Links : link'[m].x = link'[k].x /\ link'[m].x # None => m = k
      BY <1>1, <2>7, <2>9, <2>11 DEF Held
    <3>5. \A o \in Exchanges : lent'[o] = FALSE => ex'[o] = Fresh /\ pending'[o] = FALSE
      BY <1>1, <1>2, <2>10 DEF Held
    <3> QED BY <3>1, <3>2, <3>3, <3>4, <3>5 DEF Held
  <2>13. \A m \in Links : m # l /\ Bound(m)' => Bound(m) /\ link'[m] = link[m] /\ ex'[link[m].x] = ex[link[m].x]
    <3> SUFFICES ASSUME NEW m \in Links, m # l, Bound(m)'
                 PROVE  Bound(m) /\ link'[m] = link[m] /\ ex'[link[m].x] = ex[link[m].x]
      OBVIOUS
    <3>1. Bound(m) /\ link'[m] = link[m]
      BY <2>9 DEF Bound
    <3>2. link[m].x \in Exchanges /\ link[m].x # e
      BY <1>1, <2>11, <3>1, LinkFacts
    <3> QED BY <2>10, <3>1, <3>2
  <2>14. Fresh.tx = 0 /\ Fresh.fs = FALSE
    BY FreshSound
  <2>15. Sends'
    <3>1. \A m \in Links : link'[m].phase \in {"listening", "waiting"} => link'[m].closing = FALSE /\ link'[m].flight = 0
      BY <1>1, <2>7, <2>9 DEF Sends
    <3>2. \A m \in Links : m # l =>
            /\ Bound(m)' => link'[m].flight <= ex'[link'[m].x].tx
            /\ Bound(m)' /\ link'[m].closing = TRUE =>
                 ex'[link'[m].x].phase = "DONE" /\ link'[m].fin = ex'[link'[m].x].tx
      BY <1>1, <2>13 DEF Sends
    <3>3. link'[l].flight <= ex'[link'[l].x].tx /\ link'[l].closing = FALSE
      BY <2>7, <2>9, <2>10, <2>14
    <3> QED BY <3>1, <3>2, <3>3 DEF Sends
  <2>16. Runs'
    <3> SUFFICES ASSUME NEW o \in Exchanges PROVE Sound(ex'[o]) /\ (pending'[o] = TRUE => Polled(ex'[o]))
      BY DEF Runs
    <3>1. pending[e] = FALSE
      BY <1>1, <2>2 DEF Held
    <3> QED BY <1>1, <1>2, <2>10, <3>1, FreshSound DEF Runs
  <2>17. Queued'
    <3>1. \A i \in 1..n : i + 1 \in 1..(n + 1) /\ i + 1 # 1
      BY <2>3
    <3>2. \A i \in 1..n : waiting[i + 1] # l
      <4>1. 1 \in 1..(n + 1)
        BY <2>3
      <4> QED BY <1>1, <2>3, <2>4, <3>1, <4>1 DEF Queued, Distinct
    <3>3. \A i \in 1..n : link'[waiting'[i]].phase = "waiting"
      BY <1>1, <2>1, <2>3, <2>4, <2>9, <3>1, <3>2 DEF Queued
    <3>4. \A i, j \in 1..n : waiting'[i] = waiting'[j] => i = j
      <4> SUFFICES ASSUME NEW i \in 1..n, NEW j \in 1..n, waiting'[i] = waiting'[j] PROVE i = j
        OBVIOUS
      <4>1. i + 1 = j + 1
        BY <1>1, <2>1, <2>3, <2>4, <3>1 DEF Queued, Distinct
      <4> QED BY <2>3, <4>1
    <3>5. Distinct(waiting)'
      BY <2>1, <2>4, <3>4 DEF Distinct
    <3> QED BY <2>1, <2>4, <3>3, <3>5 DEF Queued
  <2>18. Given'
    <3>1. since > 0 => \A m \in Links : LetGo(m)'
      BY <1>4, <2>7, <2>9, <2>10, <2>13, <2>14 DEF LetGo
    <3>2. pc' # AtWork
      BY <1>2, <2>1, NumbersTyped
    <3> QED BY <1>1, <1>2, <3>1, <3>2 DEF Given
  <2>19. TypeOK'
    BY <1>1, <1>2, <2>1, <2>4, <2>9, <2>10 DEF TypeOK, Link
  <2> QED BY <2>12, <2>15, <2>16, <2>17, <2>18, <2>19 DEF Inv
<1>6. CASE ~(waiting # <<>> /\ Free # {})
  <2>1. pc' = AtWork /\ units' = 0 /\ UNCHANGED <<link, waiting, lent, ex>>
    BY <1>6 DEF Attach
  <2>2. Held' /\ Sends' /\ Runs' /\ Queued'
    BY <1>1, <1>2, <2>1 DEF Held, Sends, Runs, Queued, Distinct, Bound
  <2>3. Given'
    <3>1. \A l \in Links : LetGo(l) => LetGo(l)'
      BY <2>1 DEF LetGo, Bound
    <3>2. ~(AtWork <= AtAttach)
      BY NumbersTyped
    <3> QED BY <1>1, <1>2, <1>4, <2>1, <3>1, <3>2 DEF Given
  <2>4. AtWork \in AtNet..AtWork
    BY CountTypes DEF AtNet, AtWork
  <2>5. TypeOK'
    BY <1>1, <1>2, <2>1, <2>4, CountTypes DEF TypeOK
  <2> QED BY <2>2, <2>3, <2>5 DEF Inv
<1> QED BY <1>5, <1>6

\* A unit is run of an exchange that is lent, and by the parser only of one whose
\* answer is not all in its ring.
LEMMA RunnableFacts ==
    ASSUME TypeOK, Held, Runs, NEW e \in Exchanges, Runnable(e)
    PROVE  lent[e] = TRUE /\ (pending[e] = FALSE => ex[e].phase # "DONE")
<1>1. lent[e] \in BOOLEAN /\ pending[e] \in BOOLEAN
  BY DEF TypeOK
<1>2. CASE pending[e] = TRUE
  BY <1>1, <1>2 DEF Held
<1>3. CASE lent[e] = TRUE /\ WantsService(ex[e])
  BY <1>3 DEF WantsService
<1> QED BY <1>1, <1>2, <1>3 DEF Runnable

\* What a unit makes of one exchange leaves the links and the others alone.
LEMMA UnitRun ==
    ASSUME TypeOK, Held, Sends, Runs, NEW e \in Exchanges, lent[e] = TRUE, NEW y, ex[e].phase # "DONE" \/ y = ex[e],
           Moves(ex[e], y, locked), ex' = [ex EXCEPT ![e] = y], link' = link, lent' = lent,
           NEW b \in BOOLEAN, pending' = [pending EXCEPT ![e] = b], b = TRUE => Polled(y)
    PROVE  /\ ex' \in [Exchanges -> Exchange] /\ pending' \in [Exchanges -> BOOLEAN]
           /\ ex'[e] = y /\ (\A o \in Exchanges : o # e => ex'[o] = ex[o])
           /\ Held' /\ Sends' /\ Runs'
<1>1. Sound(y) /\ y \in Exchange /\ ex[e].tx <= y.tx
  BY DEF Moves, Sound
<1>2. /\ ex' \in [Exchanges -> Exchange] /\ pending' \in [Exchanges -> BOOLEAN]
      /\ ex'[e] = y /\ (\A o \in Exchanges : o # e => ex'[o] = ex[o] /\ pending'[o] = pending[o])
      /\ pending'[e] = b
  BY <1>1 DEF TypeOK
<1>3. \A l \in Links : Bound(l)' <=> Bound(l)
  BY DEF Bound
<1>4. Held'
  <2>1. \A l \in Links : (Bound(l)' <=> link'[l].x # None) /\ (Bound(l)' => lent'[link'[l].x] = TRUE)
    BY <1>3 DEF Held
  <2>2. \A o \in Exchanges : lent'[o] = FALSE => ex'[o] = Fresh /\ pending'[o] = FALSE
    BY <1>2 DEF Held
  <2>3. /\ \A o \in Exchanges : lent'[o] = TRUE => \E l \in Links : link'[l].x = o
        /\ \A l, m \in Links : link'[l].x = link'[m].x /\ link'[l].x # None => l = m
    BY DEF Held
  <2> QED BY <2>1, <2>2, <2>3 DEF Held
<1>5. Sends'
  <2>1. \A l \in Links : link'[l].phase \in {"listening", "waiting"} => link'[l].closing = FALSE /\ link'[l].flight = 0
    BY DEF Sends
  <2>2. ASSUME NEW l \in Links, Bound(l)
        PROVE  /\ link[l].flight <= ex'[link[l].x].tx
               /\ link[l].closing = TRUE => ex'[link[l].x].phase = "DONE" /\ link[l].fin = ex'[link[l].x].tx
    <3>1. /\ link[l].x \in Exchanges /\ link[l].flight \in Nat /\ ex[link[l].x].tx \in Nat
          /\ Bears(link[l], ex[link[l].x], ex[link[l].x])
      BY <2>2, LinkFacts, CountTypes, SizeTypes
    <3>2. CASE link[l].x = e /\ ex[e].phase # "DONE"
      <4>1. y.tx \in Nat /\ link[l].flight <= ex[e].tx /\ ~(link[l].closing = TRUE)
        BY <1>1, <3>1, <3>2, SizeTypes DEF Bears, Exchange
      <4>2. ex[e].tx \in Nat /\ link[l].flight \in Nat
        BY <3>1, <3>2
      <4>3. link[l].flight <= y.tx
        BY <1>1, <4>1, <4>2
      <4> QED BY <1>2, <3>2, <4>1, <4>3
    <3>3. CASE link[l].x # e \/ y = ex[e]
      BY <1>2, <3>1, <3>3 DEF Bears
    <3> QED BY <3>2, <3>3
  <2> QED BY <1>3, <2>1, <2>2 DEF Sends
<1>6. Runs'
  BY <1>1, <1>2 DEF Runs
<1> QED BY <1>2, <1>4, <1>5, <1>6

LEMMA SinceCounted ==
    ASSUME NEW s \in Nat, NEW u \in Nat, u < UnitsPerPass, s = 0 \/ s <= u
    PROVE  Min({s + 1, UnitsPerPass + 1}) \in Nat /\ Min({s + 1, UnitsPerPass + 1}) <= u + 1
<1>1. s + 1 \in Nat /\ UnitsPerPass + 1 \in Nat /\ s + 1 <= u + 1
  BY CountTypes
<1>2. /\ Min({s + 1, UnitsPerPass + 1}) \in Nat /\ Min({s + 1, UnitsPerPass + 1}) <= s + 1
  BY <1>1, MinOfTwo
<1> QED BY <1>1, <1>2

LEMMA WorkKeeps == Inv /\ Work => Inv'
<1> SUFFICES ASSUME Inv, Work PROVE Inv'
  OBVIOUS
<1> DEFINE e == Chosen
<1>1. TypeOK /\ Held /\ Sends /\ Runs /\ Queued /\ Given
  BY DEF Inv
<1>2. /\ pc = AtWork /\ units < UnitsPerPass /\ units' = units + 1 /\ tcp' = tcp /\ link' = link
      /\ waiting' = waiting /\ lent' = lent /\ pc' = pc /\ locked' = locked
  BY DEF Work
<1>3. e \in Exchanges /\ Runnable(e)
  <2>1. PICK o \in Exchanges : Runnable(o)
    BY DEF Work
  <2> QED BY <1>1, <2>1, ChosenRuns DEF TypeOK
<1>4. PICK y \in StatusRendered(ex[e]) \cup Serviced(ex[e], locked) :
        /\ pending[e] => y \in StatusRendered(ex[e])
        /\ ex' = [ex EXCEPT ![e] = y]
        /\ \E b \in BOOLEAN : pending' = [pending EXCEPT ![e] = b] /\ (b = TRUE => Polled(y))
  <2>1. CASE pending[e]
    <3>1. PICK y \in StatusRendered(ex[e]) : ex' = [ex EXCEPT ![e] = y]
      BY <2>1 DEF Work
    <3>2. \E b \in BOOLEAN : pending' = [pending EXCEPT ![e] = b] /\ (b = TRUE => Polled(y))
      <4>1. pending' = [pending EXCEPT ![e] = FALSE]
        BY <2>1 DEF Work
      <4> WITNESS FALSE \in BOOLEAN
      <4> QED BY <4>1
    <3>3. y \in StatusRendered(ex[e]) \cup Serviced(ex[e], locked)
      OBVIOUS
    <3> QED BY <3>1, <3>2, <3>3, Zenon
  <2>2. CASE ~pending[e]
    <3>1. PICK y \in Serviced(ex[e], locked) :
            /\ ex' = [ex EXCEPT ![e] = y]
            /\ \E offered \in Offered(ex[e], y) : pending' = [pending EXCEPT ![e] = offered]
      BY <2>2 DEF Work
    <3>2. PICK b \in Offered(ex[e], y) : pending' = [pending EXCEPT ![e] = b]
      BY <3>1
    <3>3. b \in BOOLEAN /\ (b = TRUE => Polled(y))
      BY DEF Offered, Polled, Responded
    <3>4. \E c \in BOOLEAN : pending' = [pending EXCEPT ![e] = c] /\ (c = TRUE => Polled(y))
      BY <3>2, <3>3, Zenon
    <3>5. y \in StatusRendered(ex[e]) \cup Serviced(ex[e], locked)
      OBVIOUS
    <3> QED BY <2>2, <3>1, <3>4, <3>5, Zenon
  <2> QED BY <2>1, <2>2
<1>5. PICK b \in BOOLEAN : pending' = [pending EXCEPT ![e] = b] /\ (b = TRUE => Polled(y))
  BY <1>4
<1>6. /\ turn' = After(e, 1)
      /\ since' = IF locked /\ ex'[e].fs THEN Min({since + 1, UnitsPerPass + 1}) ELSE since
  BY DEF Work
<1> HIDE DEF e
<1>7. lent[e] = TRUE /\ (ex[e].phase # "DONE" \/ y = ex[e]) /\ Sound(ex[e]) /\ locked \in BOOLEAN
  <2>1. lent[e] = TRUE /\ (pending[e] = FALSE => ex[e].phase # "DONE") /\ pending[e] \in BOOLEAN
    BY <1>1, <1>3, RunnableFacts DEF TypeOK
  <2>2. pending[e] /\ ex[e].phase = "DONE" => y = ex[e]
    BY <1>4 DEF StatusRendered, Responded
  <2> QED BY <1>1, <1>3, <2>1, <2>2 DEF Runs, TypeOK
<1>8. Moves(ex[e], y, locked)
  BY <1>4, <1>7, ServicedMoves, StatusMoves
<1>9. /\ ex' \in [Exchanges -> Exchange] /\ pending' \in [Exchanges -> BOOLEAN]
      /\ ex'[e] = y /\ (\A o \in Exchanges : o # e => ex'[o] = ex[o])
      /\ Held' /\ Sends' /\ Runs'
  BY <1>1, <1>2, <1>3, <1>4, <1>5, <1>7, <1>8, UnitRun
<1>10. Queued'
  BY <1>1, <1>2 DEF Queued, Distinct
<1>11. turn' \in Exchanges
  <2>1. 1 \in Nat
    OBVIOUS
  <2> QED BY <1>3, <1>6, <2>1, AfterTyped
<1>12. /\ units \in Nat /\ since \in Nat /\ units' \in 0..UnitsPerPass
  <2>1. units \in 0..UnitsPerPass /\ since \in 0..(UnitsPerPass + 1)
    BY <1>1 DEF TypeOK
  <2> QED BY <1>2, <2>1, CountTypes
<1>13. y \in Exchange /\ y.fs \in BOOLEAN
  BY <1>8 DEF Moves, Sound, Exchange
<1>14. ~(pc' <= AtAttach)
  BY <1>2, NumbersTyped
<1>15. CASE locked = TRUE /\ y.fs = TRUE
  <2>1. ex[e].fs = TRUE
    BY <1>8, <1>15 DEF Moves
  <2>2. PICK l \in Links : link[l].x = e
    BY <1>1, <1>3, <1>7 DEF Held
  <2>3. ~LetGo(l)
    BY <1>1, <1>3, <2>1, <2>2, NumbersTyped DEF LetGo, Held
  <2>4. since = 0 \/ since <= units
    BY <1>1, <1>2, <1>12, <2>3 DEF Given
  <2>5. since' = Min({since + 1, UnitsPerPass + 1})
    BY <1>6, <1>9, <1>15
  <2>6. since' \in Nat /\ since' <= units'
    BY <1>2, <1>12, <2>4, <2>5, SinceCounted
  <2>7. since' \in 0..(UnitsPerPass + 1) /\ since' <= UnitsPerPass
    BY <1>12, <2>6, CountTypes
  <2>8. Given'
    BY <1>2, <1>14, <1>15, <2>6, <2>7 DEF Given
  <2>9. TypeOK'
    BY <1>1, <1>2, <1>9, <1>11, <1>12, <2>7 DEF TypeOK
  <2> QED BY <1>9, <1>10, <2>8, <2>9 DEF Inv
<1>16. CASE ~(locked = TRUE /\ y.fs = TRUE)
  <2>1. since' = since
    BY <1>6, <1>7, <1>9, <1>13, <1>16
  <2>2. ASSUME since > 0 PROVE since <= units' \/ \A l \in Links : LetGo(l)'
    <3>1. locked = TRUE /\ y.fs = FALSE
      BY <1>1, <1>13, <1>16, <2>2 DEF Given
    <3>2. CASE since <= units
      BY <1>2, <1>12, <3>2
    <3>3. CASE \A l \in Links : LetGo(l)
      <4> SUFFICES ASSUME NEW l \in Links, Bound(l) PROVE ex'[link[l].x].fs = FALSE
        BY <1>2 DEF LetGo, Bound
      <4>1. link[l].x \in Exchanges /\ ex[link[l].x].fs = FALSE
        BY <1>1, <3>3, LinkFacts DEF LetGo
      <4> QED BY <1>9, <3>1, <4>1
    <3> QED BY <1>1, <1>2, <2>2, <3>2, <3>3 DEF Given
  <2>3. Given'
    BY <1>1, <1>2, <1>14, <2>1, <2>2 DEF Given
  <2>4. TypeOK'
    BY <1>1, <1>2, <1>9, <1>11, <1>12, <2>1 DEF TypeOK
  <2> QED BY <1>9, <1>10, <2>3, <2>4 DEF Inv
<1> QED BY <1>15, <1>16

LEMMA SleepKeeps == Inv /\ Sleep => Inv'
<1> SUFFICES ASSUME Inv, Sleep PROVE Inv'
  OBVIOUS
<1>1. /\ pc' = AtNet /\ since' = since /\ locked' = locked
  BY DEF Sleep
<1>2. \A l \in Links : ~(l < pc')
  BY <1>1, NumbersTyped DEF AtNet
<1>3. pc' # AtWork /\ pc' \in AtNet..AtWork
  BY <1>1, CountTypes DEF AtWork, AtNet
<1>4. Given'
  BY <1>1, <1>2, <1>3 DEF Inv, Given
<1>5. TypeOK'
  BY <1>3 DEF Inv, TypeOK, Sleep
<1>6. Held' /\ Sends' /\ Runs' /\ Queued'
  BY DEF Inv, Held, Sends, Runs, Queued, Distinct, Bound, Sleep
<1> QED BY <1>4, <1>5, <1>6 DEF Inv

-----------------------------------------------------------------------------

LEMMA InitInv == Init => Inv
<1> SUFFICES ASSUME Init PROVE Inv
  OBVIOUS
<1>1. /\ Listening \in Link /\ Listening.x = None /\ Listening.phase = "listening"
      /\ Listening.closing = FALSE /\ Listening.flight = 0
  BY CountTypes, SizeTypes DEF Listening, Link
<1>2. /\ \A l \in Links : link[l] = Listening
      /\ \A e \in Exchanges : ex[e] = Fresh /\ lent[e] = FALSE /\ pending[e] = FALSE
      /\ waiting = <<>> /\ turn = 1 /\ pc = AtNet /\ units = 0 /\ locked = FALSE /\ since = 0
  BY DEF Init
<1>3. waiting \in Seq(Links) /\ Len(waiting) = 0
  BY <1>2, EmptySeq
<1>4. TypeOK
  <2>1. 1 \in Exchanges /\ AtNet \in AtNet..AtWork /\ 0 \in 0..UnitsPerPass /\ 0 \in 0..(UnitsPerPass + 1)
    BY CountTypes DEF Exchanges, AtNet, AtWork
  <2>2. link \in [Links -> Link] /\ ex \in [Exchanges -> Exchange]
    BY <1>1, FreshSound DEF Init
  <2> QED BY <1>2, <1>3, <2>1, <2>2 DEF Init, TypeOK, Link
<1>5. Held
  BY <1>1, <1>2 DEF Held, Bound
<1>6. Sends
  BY <1>1, <1>2 DEF Sends, Bound
<1>7. Runs
  BY <1>2, FreshSound DEF Runs
<1>8. Queued
  BY <1>3 DEF Queued, Distinct
<1>9. Given
  BY <1>2, CountTypes DEF Given
<1> QED BY <1>4, <1>5, <1>6, <1>7, <1>8, <1>9 DEF Inv

LEMMA NextInv == Inv /\ [Next]_vars => Inv'
<1> SUFFICES ASSUME Inv, [Next]_vars PROVE Inv'
  OBVIOUS
<1>1. CASE UNCHANGED vars
  <2>1. /\ UNCHANGED tcp /\ UNCHANGED link /\ UNCHANGED waiting /\ UNCHANGED ex /\ UNCHANGED lent /\ UNCHANGED pending
        /\ UNCHANGED turn /\ UNCHANGED pc /\ UNCHANGED units /\ UNCHANGED locked /\ UNCHANGED since
    BY <1>1 DEF vars
  <2>2. TypeOK'
    BY <2>1 DEF Inv, TypeOK
  <2>3. Held' /\ Sends' /\ Runs' /\ Queued'
    BY <2>1 DEF Inv, Held, Sends, Runs, Queued, Distinct, Bound
  <2>4. Given'
    BY <2>1 DEF Inv, Given, LetGo, Bound
  <2> QED BY <2>2, <2>3, <2>4 DEF Inv
<1>2. CASE NetTask
  BY <1>2, PassBeginsKeeps, PassKeeps, AttachKeeps, WorkKeeps, SleepKeeps DEF NetTask
<1>3. CASE Stack
  <2>1. PICK l \in Links : \/ Connect(l) \/ PeerSends(l) \/ PeerCloses(l) \/ Dropped(l) \/ PeerAcks(l)
                           \/ Retransmit(l) \/ StackSends(l) \/ BothClosed(l)
    BY <1>3 DEF Stack
  <2> QED BY <2>1, PeerMoves, PeerSendsKeeps, PeerAcksKeeps, RetransmitKeeps, StackSendsKeeps
<1>4. CASE LogTakes
  BY <1>4, LogTakesKeeps
<1> QED BY <1>1, <1>2, <1>3, <1>4 DEF Next

LEMMA AlwaysInv == Spec => []Inv
  BY InitInv, NextInv, PTL DEF Spec

-----------------------------------------------------------------------------
(* The theorems.                                                             *)

LEMMA InvFinBehindAll == Inv => FinBehindAll
<1> SUFFICES ASSUME Inv, NEW l \in Links, link[l].closing, Bound(l)
             PROVE  /\ link[l].fin = ex[link[l].x].tx
                    /\ ex[link[l].x].left = 0 /\ ~ex[link[l].x].failed
  BY DEF FinBehindAll
<1>1. /\ link[l].closing = TRUE /\ Sound(ex[link[l].x]) /\ Bears(link[l], ex[link[l].x], ex[link[l].x])
  BY LinkFacts DEF Inv
<1> QED BY <1>1 DEF Bears, Sound

LEMMA InvLentToOne == Inv => LentToOne
<1> SUFFICES ASSUME Inv PROVE LentToOne
  OBVIOUS
<1>1. TypeOK /\ Held /\ Sends /\ Runs
  BY DEF Inv
<1>2. ASSUME NEW e \in Exchanges PROVE lent[e] <=> Cardinality({l \in Links : link[l].x = e}) = 1
  <2> DEFINE H == {l \in Links : link[l].x = e}
  <2>1. lent[e] \in BOOLEAN /\ e # None
    BY <1>1, NumbersTyped DEF TypeOK
  <2>2. CASE lent[e] = TRUE
    <3>1. PICK l \in Links : link[l].x = e
      BY <1>1, <2>2 DEF Held
    <3>2. H = {l}
      BY <1>1, <2>1, <3>1 DEF Held
    <3>3. Cardinality({l}) = 1
      BY FS_Singleton
    <3> QED BY <2>2, <3>2, <3>3
  <2>3. CASE lent[e] = FALSE
    <3>1. H = {}
      BY <1>1, <2>1, <2>3 DEF Held
    <3>2. Cardinality(H) = 0
      BY <3>1, FS_EmptySet
    <3> QED BY <2>3, <3>2
  <2> QED BY <2>1, <2>2, <2>3
<1>3. \A l \in Links : Bound(l) <=> link[l].x # None
  BY <1>1 DEF Held
<1>4. ASSUME NEW e \in Exchanges
      PROVE  /\ pending[e] => lent[e] /\ (ex[e].route = "status" \/ Responded(ex[e]))
             /\ ex[e].fs => lent[e]
  <2>1. /\ lent[e] \in BOOLEAN /\ pending[e] \in BOOLEAN /\ Sound(ex[e])
        /\ (pending[e] = TRUE => ex[e].route = "status" \/ Responded(ex[e]))
    BY <1>1 DEF TypeOK, Runs, Polled, Responded
  <2>2. lent[e] = FALSE => pending[e] = FALSE /\ ex[e].fs = FALSE
    BY <1>1, FreshSound DEF Held
  <2> QED BY <2>1, <2>2 DEF Sound, Responded
<1> QED BY <1>1, <1>2, <1>3, <1>4 DEF LentToOne

\* An exchange is lent to one link at a time, and what it holds goes back with
\* it: no unit waits and the filesystem is not held for one that is not lent,
\* whatever the peers and the stack do (x_take(), conn_release(),
\* http_work_cancel()), for any number of links and exchanges.
THEOREM LentToOneAlways == Spec => []LentToOne
  BY AlwaysInv, InvLentToOne, PTL

\* The FIN of a link that closes is right behind the last byte of the answer,
\* for any rings, segments and answers and whatever was sent again on the way
\* (transport_bound(), tx_queued(), tx_ack()).
THEOREM FinBehindAllAlways == Spec => []FinBehindAll
  BY AlwaysInv, InvFinBehindAll, PTL

\* Once the flight log has the filesystem, no more units touch its files than
\* are run between two passes, however many links there are (x_must_let_go(),
\* fs_take()).
THEOREM LogGetsFilesAlways == Spec => []LogGetsFiles
<1>1. Inv => LogGetsFiles
  BY DEF Inv, Given, LogGetsFiles
<1> QED BY <1>1, AlwaysInv, PTL

-----------------------------------------------------------------------------
(***************************************************************************)
(* Update: what runs, and what may be swapped in, is sound.                   *)
(***************************************************************************)

\* What a transfer in hand has done to the slot it writes: its mark was made,
\* or it has failed; and all its sectors are an image.
TransferInv ==
    /\ ota.at = "HEAD" => ota.written = 0
    /\ ota.at = "BODY" => ota.failed \/ (~valid /\ ~rollback)
    /\ ota.at = "BODY" /\ ota.written = Sectors => download.whole

\* What a trial goes back to was kept, and a start that has turned does not crash.
TrialInv ==
    /\ rollback => unmarked \/ download.kept # "NO"
    /\ turned => run.kind # "CRASHES"

IInv == ImagesSound /\ TransferInv /\ TrialInv

\* The parts of the type invariant.
ImagesOK == run \in Image /\ download \in Image
FlagsOK == {valid, rollback, after_update, turned, committed, pending_reset, reset_armed,
            logging, unmarked} \subseteq BOOLEAN
TransferOK == ota \in [at: {"NONE", "HEAD", "BODY", "REPLY"}, kind: Kinds, failed: BOOLEAN,
                       written: 0 .. Sectors]
ClocksOK ==
    /\ flight \in {"AHEAD", "FLYING", "OVER"} /\ storage \in {"WELL", "STUCK"}
    /\ silent \in 0 .. Stall /\ unfed \in 0 .. Watchdog

LEMMA TypeParts ==
    /\ UpdateTypeOK <=> ImagesOK /\ FlagsOK /\ TransferOK /\ ClocksOK
    /\ UpdateTypeOK' <=> ImagesOK' /\ FlagsOK' /\ TransferOK' /\ ClocksOK'
  BY Zenon DEF UpdateTypeOK, ImagesOK, FlagsOK, TransferOK, ClocksOK

LEMMA UpdateInvInit == UpdateInit => IInv
  <1> SUFFICES ASSUME UpdateInit PROVE IInv
    OBVIOUS
  <1> USE UpdateConstants DEF UpdateInit
  <1>1. run \in Image /\ download \in Image /\ ota.at = "NONE" /\ run.kept = "PROVEN" /\ run.kind = "GOOD" /\ run.whole
    BY DEF Image, Kinds, NoTransfer
  <1>2. UpdateTypeOK
    <2>1. ota \in [at: {"NONE", "HEAD", "BODY", "REPLY"}, kind: Kinds, failed: BOOLEAN, written: 0 .. Sectors]
      BY DEF NoTransfer, Kinds
    <2>2. silent \in 0 .. Stall /\ unfed \in 0 .. Watchdog
      OBVIOUS
    <2> QED BY <1>1, <2>1, <2>2, Zenon DEF UpdateTypeOK
  <1>3. download.kept = "NO"
    OBVIOUS
  <1> QED BY <1>1, <1>2, <1>3, Zenon DEF IInv, ImagesSound, TransferInv, TrialInv

\* The bootloader's swaps: of a marked image, and back from a trial.
LEMMA RestartKeeps ==
    ASSUME IInv, Restart
    PROVE  IInv'
  <1>1. /\ valid' = FALSE /\ rollback' = (valid /\ ~rollback) /\ unmarked' = unmarked
        /\ turned' = FALSE /\ ota' = NoTransfer
    BY Zenon DEF Restart
  <1>2. UpdateTypeOK'
    <2>1. {run, download}' \subseteq Image
      BY Zenon DEF Restart, slots, IInv, ImagesSound, UpdateTypeOK
    <2>2. {valid, rollback, after_update, turned, committed, pending_reset, reset_armed,
           logging, unmarked}' \subseteq BOOLEAN
      BY Zenon DEF Restart, IInv, ImagesSound, UpdateTypeOK
    <2>3. ota' \in [at: {"NONE", "HEAD", "BODY", "REPLY"}, kind: Kinds, failed: BOOLEAN, written: 0 .. Sectors]
      BY <1>1, UpdateConstants DEF NoTransfer, Kinds
    <2>4. silent' \in 0 .. Stall /\ unfed' \in 0 .. Watchdog
      BY UpdateConstants DEF Restart
    <2>5. flight' = "AHEAD" /\ storage' = "WELL"
      BY Zenon DEF Restart
    <2> QED BY <2>1, <2>2, <2>3, <2>4, <2>5, Zenon DEF UpdateTypeOK
  <1>3. TransferInv'
    BY <1>1 DEF TransferInv, NoTransfer
  <1>4. CASE rollback \/ valid
    <2>1. run' = download /\ download' = run
      BY <1>4, Zenon DEF Restart
    <2> QED BY <1>1, <1>2, <1>3, <1>4, <2>1, Zenon DEF IInv, ImagesSound, TrialInv
  <1>5. CASE ~(rollback \/ valid)
    <2>1. run' = run /\ download' = download
      BY <1>5, Zenon DEF Restart, slots
    <2> QED BY <1>1, <1>2, <1>3, <1>5, <2>1, Zenon DEF IInv, ImagesSound, TrialInv
  <1> QED BY <1>4, <1>5

\* What the invariant asks of the marks and the images, from what a step has done
\* to them.
LEMMA SlotsKept ==
    ASSUME IInv, UpdateTypeOK', unmarked' = unmarked, turned' = turned,
           download' = download,
           run'.kind = run.kind, run'.whole = run.whole,
           run'.kept = run.kept \/ run'.kept = "BEGUN",
           \/ ~valid' /\ ~rollback' /\ run'.kept # "NO"
           \/ valid' = valid /\ rollback' = rollback
    PROVE  ImagesSound' /\ TrialInv'
  <1>1. /\ run'.kept = "PROVEN" => run'.kind = "GOOD"
        /\ download'.kept = "PROVEN" => download'.kind = "GOOD"
    BY Zenon DEF IInv, ImagesSound
  <1>2. rollback' \/ run'.kept # "NO" \/ unmarked'
    BY Zenon DEF IInv, ImagesSound
  <1>3. turned' => run'.kind # "CRASHES"
    BY Zenon DEF IInv, TrialInv
  <1>4. CASE ~valid' /\ ~rollback'
    <2>1. unmarked' \/ run'.whole
      BY Zenon DEF IInv, ImagesSound
    <2> QED BY <1>1, <1>2, <1>3, <1>4, <2>1, Zenon DEF ImagesSound, TrialInv
  <1>5. CASE valid' = valid /\ rollback' = rollback
    <2>1. ~(valid' /\ rollback') /\ (unmarked' \/ (run'.whole /\ (valid' \/ rollback' => download'.whole)))
      BY <1>5, Zenon DEF IInv, ImagesSound
    <2>2. rollback' => unmarked' \/ download'.kept # "NO"
      BY <1>5, Zenon DEF IInv, TrialInv
    <2> QED BY <1>1, <1>2, <1>3, <2>1, <2>2, Zenon DEF ImagesSound, TrialInv
  <1> QED BY <1>4, <1>5

\* A transfer's steps.
LEMMA TransferKeeps ==
    ASSUME IInv, OtaBegin \/ OtaMark \/ OtaSector \/ OtaComplete \/ OtaRelease
    PROVE  IInv'
  <1> USE UpdateConstants DEF slots, marks, commits, resets, dog, flights
  <1>0. ImagesOK /\ FlagsOK /\ TransferOK /\ ClocksOK
    BY TypeParts DEF IInv, ImagesSound
  <1>1. CASE OtaBegin
    BY <1>1 DEF OtaBegin, IInv, ImagesSound, UpdateTypeOK, Kinds, TransferInv, TrialInv
  <1>2. CASE OtaMark
    <2>1. UpdateTypeOK'
      <3>1. ImagesOK'
        BY <1>2, <1>0 DEF OtaMark, IInv, ImagesSound, ImagesOK, Image, Kinds
      <3>2. FlagsOK'
        BY <1>2, <1>0, Zenon DEF OtaMark, IInv, ImagesSound, FlagsOK
      <3>3. TransferOK'
        BY <1>2, <1>0 DEF OtaMark, IInv, ImagesSound, TransferOK
      <3>4. ClocksOK'
        BY <1>2, <1>0, Zenon DEF OtaMark, IInv, ImagesSound, ClocksOK
      <3> QED BY <3>1, <3>2, <3>3, <3>4, TypeParts
    <2>2. /\ download' = download /\ turned' = turned /\ unmarked' = unmarked
          /\ run'.kind = run.kind /\ run'.whole = run.whole
          /\ run'.kept = run.kept \/ (run.kept = "NO" /\ run'.kept = "BEGUN")
      BY <1>2 DEF OtaMark, IInv, ImagesSound, UpdateTypeOK, Image
    <2>3. \/ ~valid' /\ ~rollback' /\ run'.kept # "NO"
          \/ valid' = valid /\ rollback' = rollback /\ ota'.failed
      BY <1>2 DEF OtaMark, IInv, ImagesSound, UpdateTypeOK, Image
    <2>4. ImagesSound' /\ TrialInv'
      BY <2>1, <2>2, <2>3, SlotsKept
    <2>5. ota'.at = "BODY" /\ ota'.written # Sectors
      BY <1>2 DEF OtaMark, IInv, ImagesSound, UpdateTypeOK, TransferInv
    <2> QED BY <2>3, <2>4, <2>5, Zenon DEF IInv, TransferInv
  <1>3. CASE OtaSector
    <2>1. UpdateTypeOK'
      <3>1. ImagesOK'
        <4>1. run' = run /\ (download' = download \/ \E w \in BOOLEAN : download' = [kind |-> ota.kind, kept |-> "NO", whole |-> w])
          BY <1>3, UpdateConstants DEF OtaSector
        <4>2. ota.kind \in Kinds
          BY <1>0 DEF TransferOK
        <4> QED BY <1>0, <4>1, <4>2 DEF ImagesOK, Image
      <3>2. FlagsOK'
        BY <1>3, <1>0, Zenon DEF OtaSector, Aborted, IInv, ImagesSound, FlagsOK
      <3>3. TransferOK'
        <4>1. ota' = Aborted \/ (ota.written < Sectors /\ ota' = [ota EXCEPT !.written = @ + 1])
          BY <1>3, Zenon DEF OtaSector
        <4>2. CASE ota' = Aborted
          BY <1>0, <4>2 DEF Aborted, TransferOK
        <4>3. CASE ota.written < Sectors /\ ota' = [ota EXCEPT !.written = @ + 1]
          <5>1. ota.written + 1 \in 0 .. Sectors
            BY <1>0, <4>3 DEF TransferOK
          <5> QED BY <1>0, <4>3, <5>1 DEF TransferOK
        <4> QED BY <4>1, <4>2, <4>3
      <3>4. ClocksOK'
        BY <1>3, <1>0, Zenon DEF OtaSector, Aborted, IInv, ImagesSound, ClocksOK
      <3> QED BY <3>1, <3>2, <3>3, <3>4, TypeParts
    <2>2. run' = run /\ valid' = valid /\ rollback' = rollback /\ turned' = turned
      BY <1>3, Zenon DEF OtaSector
    <2>3. CASE UNCHANGED <<download, unmarked>> /\ ota' = Aborted
      <3>1. ota'.at = "REPLY"
        BY <2>3 DEF Aborted, IInv, ImagesSound, UpdateTypeOK
      <3> QED BY <2>1, <2>2, <2>3, <3>1, Zenon DEF IInv, ImagesSound, TransferInv, TrialInv
    <2>4. CASE unmarked' = (unmarked \/ valid \/ rollback) /\ download'.kept = "NO"
      <3>1. ImagesSound' /\ TrialInv'
        BY <2>1, <2>2, <2>4, Zenon DEF IInv, ImagesSound, TrialInv
      <3>2. TransferInv'
        <4>1. /\ ota'.at # "HEAD"
              /\ ota'.at = "BODY" => ota.at = "BODY" /\ ota'.failed = ota.failed
              /\ ota'.at = "BODY" /\ ota'.written = Sectors => download'.whole
          <5>1. CASE ota' = Aborted
            BY <1>0, <5>1 DEF Aborted, TransferOK
          <5>2. CASE /\ ota.at = "BODY" /\ ota' = [ota EXCEPT !.written = @ + 1]
                     /\ download'.whole = (ota.written + 1 = Sectors)
            BY <1>0, <5>2 DEF TransferOK
          <5> QED BY <1>3, <5>1, <5>2 DEF OtaSector
        <4> QED BY <2>2, <4>1, Zenon DEF IInv, TransferInv
      <3> QED BY <3>1, <3>2 DEF IInv
    <2>5. \/ UNCHANGED <<download, unmarked>> /\ ota' = Aborted
          \/ unmarked' = (unmarked \/ valid \/ rollback) /\ download'.kept = "NO"
      BY <1>3 DEF OtaSector
    <2> QED BY <2>3, <2>4, <2>5
  <1>4. CASE OtaComplete
    <2>1. UpdateTypeOK'
      BY <1>4 DEF OtaComplete, Aborted, IInv, ImagesSound, UpdateTypeOK, Image, Kinds
    <2>2. ota.at = "BODY" /\ ota.written = Sectors /\ ota'.at = "REPLY"
      BY <1>4 DEF OtaComplete, Aborted, IInv, ImagesSound, UpdateTypeOK
    <2>3. /\ run' = run /\ download' = download /\ rollback' = rollback
          /\ turned' = turned /\ unmarked' = unmarked
          /\ valid' = valid \/ (valid' = TRUE /\ ~ota.failed)
      BY <1>4, Zenon DEF OtaComplete
    <2>4. /\ ~(valid' /\ rollback')
          /\ unmarked' \/ (run'.whole /\ (valid' \/ rollback' => download'.whole))
      <3>1. CASE valid' = valid
        BY <2>3, <3>1, Zenon DEF IInv, ImagesSound
      <3>2. CASE ~ota.failed
        <4>1. ~rollback /\ download.whole /\ (unmarked \/ run.whole)
          BY <2>2, <3>2, Zenon DEF IInv, ImagesSound, TransferInv
        <4> QED BY <2>3, <4>1, Zenon
      <3> QED BY <2>3, <3>1, <3>2
    <2>5. TransferInv'
      BY <2>2 DEF TransferInv
    <2>6. TrialInv'
      BY <2>3, Zenon DEF IInv, TrialInv
    <2> QED BY <2>1, <2>3, <2>4, <2>5, <2>6, Zenon DEF IInv, ImagesSound
  <1>5. CASE OtaRelease
    BY <1>5 DEF OtaRelease, NoTransfer, IInv, ImagesSound, UpdateTypeOK, Kinds, TransferInv, TrialInv
  <1> QED BY <1>1, <1>2, <1>3, <1>4, <1>5

\* The verdict on an image that has run for a while.
LEMMA CommitKeeps ==
    ASSUME IInv, Turns \/ FirmwareCommit
    PROVE  IInv'
  <1> USE DEF slots, marks, commits, resets, dog, flights
  <1>1. CASE Turns
    BY <1>1 DEF Turns, IInv, ImagesSound, UpdateTypeOK,
                TransferInv, TrialInv
  <1>2. CASE FirmwareCommit
    <2>1. UpdateTypeOK'
      BY <1>2 DEF FirmwareCommit, RollBack, Commits, Refuses, IInv, ImagesSound, UpdateTypeOK, Image, Kinds
    <2>2. /\ download' = download /\ valid' = valid /\ ota' = ota
          /\ turned /\ turned' = turned /\ unmarked' = unmarked
      BY <1>2, Zenon DEF FirmwareCommit
    <2>3. CASE run' = run /\ rollback' = rollback
      BY <2>1, <2>2, <2>3, Zenon DEF IInv, ImagesSound, TransferInv, TrialInv
    <2>4. CASE /\ run.kind # "OTHER_BOARD" /\ rollback' = FALSE
               /\ run' = [run EXCEPT !.kept = "PROVEN"]
      <3>1. run'.kind = "GOOD" /\ run'.kind = run.kind /\ run'.whole = run.whole /\ run'.kept = "PROVEN"
        BY <2>2, <2>4 DEF IInv, ImagesSound, UpdateTypeOK, Image, Kinds, TrialInv
      <3> QED BY <2>1, <2>2, <2>4, <3>1, Zenon DEF IInv, ImagesSound, TransferInv, TrialInv
    <2> QED BY <1>2, <2>3, <2>4, Zenon DEF FirmwareCommit, RollBack, Commits, Refuses
  <1> QED BY <1>1, <1>2

\* What neither writes a slot nor marks one.
LEMMA OthersKeep ==
    ASSUME IInv, Period \/ Sticks \/ GoesOn \/ Launch \/ Land \/ LogEnds
    PROVE  IInv'
  <1> USE UpdateConstants DEF slots, marks, commits, resets, dog, flights
  <1>1. UNCHANGED <<run, download, valid, rollback, after_update, ota, turned, committed, unmarked>>
    BY DEF Period, Sticks, GoesOn, Launch, Land, LogEnds
  <1>2. UpdateTypeOK'
    <2>0. ImagesOK /\ FlagsOK /\ TransferOK /\ ClocksOK
      BY TypeParts DEF IInv, ImagesSound
    <2>1. ImagesOK' /\ TransferOK'
      BY <1>1, <2>0 DEF ImagesOK, TransferOK
    <2>2. pending_reset' = pending_reset /\ reset_armed' \in BOOLEAN /\ logging' \in BOOLEAN
      BY <2>0, Zenon DEF Period, Sticks, GoesOn, Launch, Land, LogEnds, FlagsOK
    <2>3. FlagsOK'
      BY <1>1, <2>0, <2>2, Zenon DEF FlagsOK
    <2>4. flight' \in {"AHEAD", "FLYING", "OVER"} /\ storage' \in {"WELL", "STUCK"}
      BY <2>0, Zenon DEF Period, Sticks, GoesOn, Launch, Land, LogEnds, ClocksOK
    <2>5. \/ silent' = silent /\ unfed' = unfed
          \/ /\ unfed < Watchdog /\ unfed' \in {0, unfed + 1}
             /\ silent' \in {0, Sooner(silent + 1, Stall)}
      <3>1. CASE Period
        BY <3>1 DEF Period
      <3>2. CASE ~Period
        BY <3>2 DEF Sticks, GoesOn, Launch, Land, LogEnds
      <3> QED BY <3>1, <3>2
    <2>6. silent \in 0 .. Stall /\ unfed \in 0 .. Watchdog
      BY <2>0 DEF ClocksOK
    <2>7. silent' \in 0 .. Stall /\ unfed' \in 0 .. Watchdog
      BY <2>5, <2>6 DEF Sooner
    <2>8. ClocksOK'
      BY <2>4, <2>7 DEF ClocksOK
    <2> QED BY <2>1, <2>3, <2>8, TypeParts
  <1> QED BY <1>1, <1>2, Zenon DEF IInv, ImagesSound, TransferInv, TrialInv

LEMMA UpdateInvStep == IInv /\ [UpdateNext]_updateVars => IInv'
  <1> SUFFICES ASSUME IInv, [UpdateNext]_updateVars PROVE IInv'
    OBVIOUS
  <1>1. CASE Bites \/ Crashes \/ PowerCut
    BY <1>1, RestartKeeps DEF Bites, Crashes, PowerCut
  <1>2. CASE UNCHANGED updateVars
    BY <1>2 DEF updateVars, slots, marks, commits, resets, dog, flights, IInv, ImagesSound, UpdateTypeOK,
                TransferInv, TrialInv
  <1> QED BY <1>1, <1>2, TransferKeeps, CommitKeeps, OthersKeep DEF UpdateNext

-----------------------------------------------------------------------------
\* However a transfer fails, is cut or is begun again on trial, and wherever
\* power is lost, the image that runs and the one that may take its place are
\* whole, and one is kept only once it has been proven or built upon.
THEOREM ImagesAlwaysSound == UpdateSpec => []ImagesSound
  <1>1. IInv => ImagesSound
    BY DEF IInv
  <1> QED BY <1>1, UpdateInvInit, UpdateInvStep, PTL DEF UpdateSpec
=============================================================================
