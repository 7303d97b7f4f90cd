--------------------------- MODULE FlashSensorProofs ---------------------------
(***************************************************************************)
(* Proofs about FlashOp, for any number of callers, a part that suspends or   *)
(* does not, and any times: what owns the lockout, when core0 may fetch, and   *)
(* that what ends with 0 was done.  And about PressureCollector, whose        *)
(* interrupt reads the sensor beside those operations.                       *)
(***************************************************************************)
EXTENDS FlashOp, PressureCollector, TLAPS

Calls == [kind : Kinds, resume : BOOLEAN, ground : BOOLEAN, slotted : BOOLEAN,
          ret : {"NONE", "AGAIN", "OK", "REFUSED", "FAILED"}, done : BOOLEAN]
Helds == [of : Callers \cup {Old}, kind : Kinds] \cup {Nothing}

TypeInv ==
    /\ flight \in BOOLEAN /\ landed \in BOOLEAN /\ stalled \in BOOLEAN
    /\ notified \in BOOLEAN /\ spinning \in BOOLEAN
    /\ piece_busy \in BOOLEAN /\ held_suspended \in BOOLEAN
    /\ lk \in {"IDLE", "WANTED", "PARKED", "RELEASE"}
    /\ parked \in 0..ParkMax /\ left \in 0..(2 * Erase)
    /\ held \in Helds
    /\ at \in [Callers -> Places] /\ slot_req \in Callers \cup {Nobody}
    /\ call \in [Callers -> Calls]

InSlots == {"FIRST", "NEXT", "SLOT", "ALARM", "TRY", "PIECE", "RUN"}
Claiming == {"NOTIFY", "WAIT", "WITHDRAW"}

\* One task is raised and none beside a piece, one is on the files, and only that
\* one has pieces.
OwnInv ==
    /\ \A c, d \in Callers : at[c] \in RaisedAt /\ at[d] \in RaisedAt \cup {"RUN"} => c = d
    /\ \A c, d \in Callers :
           at[c] # "IDLE" /\ at[d] # "IDLE" /\ call[c].slotted /\ call[d].slotted => c = d
    /\ \A c \in Callers :
           at[c] \in InSlots \/ call[c].ground \/ call[c].ret = "AGAIN" => call[c].slotted

PieceInv ==
    /\ piece_busy <=> \E c \in Callers : at[c] \in {"PIECE", "RUN"}
    /\ \A c \in Callers : slot_req = c <=> at[c] = "ALARM"

\* What each place of a caller says of the lockout, the helper and the flight.
LockInv ==
    /\ lk = "WANTED" => \E c \in Callers : at[c] \in Claiming
    /\ lk = "PARKED" => spinning
    /\ ~spinning => parked = 0
    /\ flight => ~spinning
    /\ \A c \in Callers :
           /\ flight /\ at[c] \in RaisedAt => at[c] = "CLAIM"
           /\ at[c] = "PIECE" => flight
           /\ at[c] = "RUN" => flight \/ stalled
           /\ at[c] \in Claiming /\ lk = "PARKED" => parked = 0
           /\ at[c] = "BODY" => lk = "PARKED" /\ parked = 0

\* The helper outlasts what runs whole, while the chip answers.
ParkInv == \A c \in Callers : at[c] = "WORK" /\ ~stalled => lk = "PARKED" /\ parked + left =< 2 * Erase

Inv == TypeInv /\ OwnInv /\ PieceInv /\ LockInv

\* What may come of a piece.
LEMMA OutcomeShape ==
    ASSUME TypeInv, NEW c \in Callers, NEW outcome \in Outcomes(c)
    PROVE  outcome.ret \in {"OK", "AGAIN", "FAILED"} /\ outcome.held \in Helds /\ outcome.done \in BOOLEAN
  <1> DEFINE mine == call[c].resume /\ held.of = c
             started == ~call[c].resume /\ Takes(held, call[c].kind)
             Leaves(ret, of) == [ret |-> ret, held |-> [of |-> of, kind |-> call[c].kind], done |-> FALSE]
  <1>1. held \in Helds /\ call[c].kind \in Kinds /\ call[c].done \in BOOLEAN
    BY DEF TypeInv, Calls
  <1>2. (call[c].done \/ mine \/ started) \in BOOLEAN
    BY <1>1
  <1>3. CASE outcome = [ret |-> "OK", held |-> IF mine THEN Nothing ELSE held,
                        done |-> call[c].done \/ mine \/ started]
    BY <1>1, <1>2, <1>3 DEF Helds
  <1>4. CASE outcome \in {Leaves("AGAIN", c), Leaves("FAILED", Old)}
    <2>1. [of |-> c, kind |-> call[c].kind] \in Helds /\ [of |-> Old, kind |-> call[c].kind] \in Helds
      BY <1>1 DEF Helds
    <2>2. CASE outcome = Leaves("AGAIN", c)
      BY <2>1, <2>2
    <2>3. CASE outcome = Leaves("FAILED", Old)
      BY <2>1, <2>3
    <2> QED BY <1>4, <2>2, <2>3
  <1> QED BY <1>3, <1>4 DEF Outcomes

\* What a piece's end leaves, for whoever ran it.
CameWell(c, outcome) ==
    /\ outcome.ret \in {"OK", "AGAIN", "FAILED"}
    /\ call' \in [Callers -> Calls] /\ held' \in Helds /\ held_suspended' \in BOOLEAN
    /\ piece_busy' = FALSE
    /\ \A d \in Callers : call'[d].slotted = call[d].slotted /\ call'[d].ground = call[d].ground
    /\ call'[c].ret = outcome.ret
    /\ \A d \in Callers : d # c => call'[d] = call[d]

\* And it does.
LEMMA ComesWell ==
    ASSUME Inv, NEW c \in Callers, NEW outcome \in Outcomes(c), Comes(c, outcome)
    PROVE  CameWell(c, outcome)
  <1>1. TypeInv
    BY DEF Inv
  <1>2. outcome.ret \in {"OK", "AGAIN", "FAILED"} /\ outcome.held \in Helds /\ outcome.done \in BOOLEAN
    BY <1>1, OutcomeShape
  <1>3. held' \in Helds /\ piece_busy' = FALSE
    BY <1>2 DEF Comes
  <1>4. held_suspended' \in BOOLEAN
    BY <1>1 DEF Comes, Held, TypeInv
  <1>5. \A d \in Callers : call[d] \in Calls
    BY <1>1 DEF TypeInv
  <1>6. call' = [call EXCEPT ![c].ret = outcome.ret, ![c].done = outcome.done,
                             ![c].resume = @ \/ outcome.ret = "AGAIN"]
    BY Zenon DEF Comes
  <1>7. call' \in [Callers -> Calls]
    <2>1. (call[c].resume \/ outcome.ret = "AGAIN") \in BOOLEAN
      BY Zenon
    <2>2. call[c] \in Calls
      BY <1>5
    <2>3. \A resume \in BOOLEAN :
              [call[c] EXCEPT !.ret = outcome.ret, !.done = outcome.done, !.resume = resume] \in Calls
      BY <1>2, <2>2 DEF Calls
    <2>4. \E resume \in BOOLEAN :
              call' = [call EXCEPT ![c] = [call[c] EXCEPT !.ret = outcome.ret, !.done = outcome.done,
                                                          !.resume = resume]]
      <3> WITNESS (call[c].resume \/ outcome.ret = "AGAIN") \in BOOLEAN
      <3> QED BY <1>1, <1>6 DEF TypeInv
    <2> QED BY <1>1, <2>3, <2>4 DEF TypeInv
  <1>8. /\ \A d \in Callers : call'[d].slotted = call[d].slotted /\ call'[d].ground = call[d].ground
        /\ call'[c].ret = outcome.ret
        /\ \A d \in Callers : d # c => call'[d] = call[d]
    BY <1>1, <1>5, <1>6 DEF TypeInv, Calls
  <1> QED BY <1>2, <1>3, <1>4, <1>7, <1>8 DEF CameWell

\* A caller asks for the files' operation, alone on them.
LEMMA SlotOpKeeps ==
    ASSUME Inv, NEW c \in Callers, SlotOp(c)
    PROVE  Inv'
  <1> USE FlashOpConstants DEF SlotOp, phase, helper, chip, Goes, Return, Runs, FilesFree, Resting
  <1>1. TypeInv'
    <2>1. PICK kind \in Kinds :
             call' = [call EXCEPT ![c] = [Resting EXCEPT
                 !.kind = kind, !.slotted = TRUE,
                 !.ground = ~flight /\ c = Writer /\ ~held_suspended /\ Suspends /\ kind = "ERASE"]]
      OBVIOUS
    <2>2. [Resting EXCEPT !.kind = kind, !.slotted = TRUE,
               !.ground = ~flight /\ c = Writer /\ ~held_suspended /\ Suspends /\ kind = "ERASE"] \in Calls
      BY DEF Calls
    <2>3. call' \in [Callers -> Calls]
      BY <2>1, <2>2, Zenon DEF Inv, TypeInv
    <2> QED BY <2>3 DEF Inv, TypeInv, Places
  <1>2. OwnInv'
    BY DEF Inv, TypeInv, OwnInv, Calls, InSlots, Places, RaisedAt, Uninterrupted
  <1>3. PieceInv'
    BY DEF Inv, TypeInv, OwnInv, PieceInv, Calls, InSlots, Nobody, Places, RaisedAt, Uninterrupted
  <1>4. LockInv'
    BY DEF Inv, TypeInv, OwnInv, PieceInv, LockInv, Calls, Claiming, Places, RaisedAt, Uninterrupted
  <1> QED BY <1>1, <1>2, <1>3, <1>4 DEF Inv

\* The net task asks for a new image's.
LEMMA PlainOpKeeps ==
    ASSUME Inv, NEW c \in Callers, PlainOp(c)
    PROVE  Inv'
  <1> USE FlashOpConstants DEF PlainOp, phase, helper, chip, Goes, Return, Runs, Resting
  <1>1. TypeInv'
    <2>1. PICK kind \in Kinds : call' = [call EXCEPT ![c] = [Resting EXCEPT !.kind = kind]]
      OBVIOUS
    <2>2. [Resting EXCEPT !.kind = kind] \in Calls
      BY DEF Calls
    <2>3. call' \in [Callers -> Calls]
      BY <2>1, <2>2, Zenon DEF Inv, TypeInv
    <2> QED BY <2>3 DEF Inv, TypeInv, Places
  <1>2. OwnInv'
    BY DEF Inv, TypeInv, OwnInv, Calls, InSlots, Places, RaisedAt, Uninterrupted
  <1>3. PieceInv'
    BY DEF Inv, TypeInv, OwnInv, PieceInv, Calls, InSlots, Nobody, Places, RaisedAt, Uninterrupted
  <1>4. LockInv'
    BY DEF Inv, TypeInv, OwnInv, PieceInv, LockInv, Calls, Claiming, Places, RaisedAt, Uninterrupted
  <1> QED BY <1>1, <1>2, <1>3, <1>4 DEF Inv

\* A writer gives its operation up.
LEMMA SlotsSpentKeeps ==
    ASSUME Inv, NEW c \in Callers, SlotsSpent(c)
    PROVE  Inv'
  <1> USE FlashOpConstants DEF SlotsSpent, phase, helper, chip, Goes, Return, Runs
  <1>1. TypeInv'
    BY DEF Inv, TypeInv, Calls, Helds, Kinds, Old, Nothing, Nobody, Places, RaisedAt, Uninterrupted
  <1>2. OwnInv'
    BY DEF Inv, TypeInv, OwnInv, Calls, InSlots, Places, RaisedAt, Uninterrupted
  <1>3. PieceInv'
    BY DEF Inv, TypeInv, OwnInv, PieceInv, Calls, InSlots, Nobody, Places, RaisedAt, Uninterrupted
  <1>4. LockInv'
    BY DEF Inv, TypeInv, OwnInv, PieceInv, LockInv, Calls, Claiming, Places, RaisedAt, Uninterrupted
  <1> QED BY <1>1, <1>2, <1>3, <1>4 DEF Inv

\* The loop over slots: none of it touches the lockout.
LEMMA SlotLoopKeeps ==
    ASSUME Inv, NEW c \in Callers, SlotLoop(c)
    PROVE  Inv'
  <1> USE FlashOpConstants DEF SlotLoop, phase, helper, chip, Goes, Return, Runs
  <1>1. TypeInv'
    BY DEF Inv, TypeInv, Calls, Helds, Kinds, Old, Nothing, Nobody, Places, RaisedAt, Uninterrupted
  <1>2. OwnInv'
    BY DEF Inv, TypeInv, OwnInv, Calls, InSlots, Places, RaisedAt, Uninterrupted
  <1>3. PieceInv'
    BY DEF Inv, TypeInv, OwnInv, PieceInv, Calls, InSlots, Nobody, Places, RaisedAt, Uninterrupted
  <1>4. LockInv'
    BY DEF Inv, TypeInv, OwnInv, PieceInv, LockInv, Calls, Claiming, Places, RaisedAt, Uninterrupted
  <1> QED BY <1>1, <1>2, <1>3, <1>4 DEF Inv

\* The alarm is the one caller's on the files.
LEMMA AskAlarmKeeps ==
    ASSUME Inv, NEW c \in Callers, AskAlarm(c)
    PROVE  Inv'
  <1> USE FlashOpConstants DEF AskAlarm, phase, helper, chip, Goes, Return, Runs
  <1>1. TypeInv'
    BY DEF Inv, TypeInv, Calls, Helds, Kinds, Old, Nothing, Nobody, Places, RaisedAt, Uninterrupted
  <1>2. OwnInv'
    BY DEF Inv, TypeInv, OwnInv, Calls, InSlots, Places, RaisedAt, Uninterrupted
  <1>3. PieceInv'
    BY DEF Inv, TypeInv, OwnInv, PieceInv, Calls, InSlots, Nobody, Places, RaisedAt, Uninterrupted
  <1>4. LockInv'
    BY DEF Inv, TypeInv, OwnInv, PieceInv, LockInv, Calls, Claiming, Places, RaisedAt, Uninterrupted
  <1> QED BY <1>1, <1>2, <1>3, <1>4 DEF Inv

\* The alarm's piece is claimed in flight only.
LEMMA SlotIsrKeeps ==
    ASSUME Inv, NEW c \in Callers, SlotIsr(c)
    PROVE  Inv'
  <1> USE FlashOpConstants DEF SlotIsr, phase, helper, chip, Goes, Return, Runs, NotYet
  <1>1. TypeInv'
    <2>1. call' \in [Callers -> Calls] /\ held' \in Helds
      BY DEF Inv, TypeInv, Calls, Helds, Old, Nothing
    <2>2. at' \in [Callers -> Places]
      BY DEF Inv, TypeInv, Places
    <2> QED BY <2>1, <2>2 DEF Inv, TypeInv
  <1>2. OwnInv'
    <2>1. at[c] = "ALARM"
      BY DEF Inv, PieceInv
    <2> QED BY <2>1 DEF Inv, TypeInv, OwnInv, Calls, InSlots, Places, RaisedAt
  <1>3. PieceInv'
    BY DEF Inv, TypeInv, OwnInv, PieceInv, Calls, InSlots, Nobody, Places, RaisedAt, Uninterrupted
  <1>4. LockInv'
    BY DEF Inv, TypeInv, OwnInv, PieceInv, LockInv, Calls, Claiming, Places, RaisedAt, Uninterrupted
  <1> QED BY <1>1, <1>2, <1>3, <1>4 DEF Inv

\* The alarm goes with the wait for it.
LEMMA StopWaitingKeeps ==
    ASSUME Inv, NEW c \in Callers, StopWaiting(c)
    PROVE  Inv'
  <1> USE FlashOpConstants DEF StopWaiting, phase, helper, chip, Goes, Return, Runs, NotYet
  <1>1. TypeInv'
    BY DEF Inv, TypeInv, Calls, Helds, Kinds, Old, Nothing, Nobody, Places, RaisedAt, Uninterrupted
  <1>2. OwnInv'
    BY DEF Inv, TypeInv, OwnInv, Calls, InSlots, Places, RaisedAt, Uninterrupted
  <1>3. PieceInv'
    BY DEF Inv, TypeInv, OwnInv, PieceInv, Calls, InSlots, Nobody, Places, RaisedAt, Uninterrupted
  <1>4. LockInv'
    BY DEF Inv, TypeInv, OwnInv, PieceInv, LockInv, Calls, Claiming, Places, RaisedAt, Uninterrupted
  <1> QED BY <1>1, <1>2, <1>3, <1>4 DEF Inv

\* A slot begins.
LEMMA SlotStartKeeps ==
    ASSUME Inv, NEW c \in Callers, SlotStart(c)
    PROVE  Inv'
  <1> USE FlashOpConstants DEF SlotStart, phase, helper, chip, Goes, Return, Runs
  <1>1. TypeInv'
    BY DEF Inv, TypeInv, Calls, Helds, Kinds, Old, Nothing, Nobody, Places, RaisedAt, Uninterrupted
  <1>2. OwnInv'
    BY DEF Inv, TypeInv, OwnInv, Calls, InSlots, Places, RaisedAt, Uninterrupted
  <1>3. PieceInv'
    BY DEF Inv, TypeInv, OwnInv, PieceInv, Calls, InSlots, Nobody, Places, RaisedAt, Uninterrupted
  <1>4. LockInv'
    BY DEF Inv, TypeInv, OwnInv, PieceInv, LockInv, Calls, Claiming, Places, RaisedAt, Uninterrupted
  <1> QED BY <1>1, <1>2, <1>3, <1>4 DEF Inv

\* A piece is claimed in flight only.
LEMMA TryPieceKeeps ==
    ASSUME Inv, NEW c \in Callers, TryPiece(c)
    PROVE  Inv'
  <1> USE FlashOpConstants DEF TryPiece, phase, helper, chip, Goes, Return, Runs, NotYet
  <1>1. TypeInv'
    BY DEF Inv, TypeInv, Calls, Helds, Kinds, Old, Nothing, Nobody, Places, RaisedAt, Uninterrupted
  <1>2. OwnInv'
    BY DEF Inv, TypeInv, OwnInv, Calls, InSlots, Places, RaisedAt, Uninterrupted
  <1>3. PieceInv'
    BY DEF Inv, TypeInv, OwnInv, PieceInv, Calls, InSlots, Nobody, Places, RaisedAt, Uninterrupted
  <1>4. LockInv'
    BY DEF Inv, TypeInv, OwnInv, PieceInv, LockInv, Calls, Claiming, Places, RaisedAt, Uninterrupted
  <1> QED BY <1>1, <1>2, <1>3, <1>4 DEF Inv

\* A claimed piece begins.
LEMMA PieceStartsKeeps ==
    ASSUME Inv, NEW c \in Callers, PieceStarts(c)
    PROVE  Inv'
  <1> USE FlashOpConstants DEF PieceStarts, phase, helper, chip, Goes, Return, Runs
  <1>1. TypeInv'
    BY DEF Inv, TypeInv, Calls, Helds, Kinds, Old, Nothing, Nobody, Places, RaisedAt, Uninterrupted
  <1>2. OwnInv'
    BY DEF Inv, TypeInv, OwnInv, Calls, InSlots, Places, RaisedAt, Uninterrupted
  <1>3. PieceInv'
    BY DEF Inv, TypeInv, OwnInv, PieceInv, Calls, InSlots, Nobody, Places, RaisedAt, Uninterrupted
  <1>4. LockInv'
    BY DEF Inv, TypeInv, OwnInv, PieceInv, LockInv, Calls, Claiming, Places, RaisedAt, Uninterrupted
  <1> QED BY <1>1, <1>2, <1>3, <1>4 DEF Inv

\* A piece ends, and with it the claim.
LEMMA RunPieceKeeps ==
    ASSUME Inv, NEW c \in Callers, RunPiece(c)
    PROVE  Inv'
  <1> USE FlashOpConstants
  <1>1. PICK outcome \in Outcomes(c) :
           /\ at[c] = "RUN" /\ Comes(c, outcome)
           /\ at' = [at EXCEPT ![c] = IF outcome.ret = "AGAIN" THEN "NEXT" ELSE "IDLE"]
           /\ UNCHANGED <<phase, lk, helper, left>>
    BY DEF RunPiece, Goes
  <1>2. CameWell(c, outcome)
    BY <1>1, ComesWell
  <1>3. UNCHANGED <<flight, landed, stalled, slot_req, lk, notified, spinning, parked, left>>
    BY <1>1 DEF phase, helper
  <1>4. TypeInv'
    BY <1>1, <1>2, <1>3 DEF CameWell, Inv, TypeInv, Places
  <1>5. OwnInv'
    BY <1>1, <1>2 DEF CameWell, Inv, TypeInv, OwnInv, InSlots, RaisedAt
  <1>6. PieceInv'
    BY <1>1, <1>2, <1>3 DEF CameWell, Inv, TypeInv, OwnInv, PieceInv, InSlots
  <1>7. LockInv'
    BY <1>1, <1>3 DEF Inv, TypeInv, LockInv, Claiming, RaisedAt
  <1> QED BY <1>4, <1>5, <1>6, <1>7 DEF Inv

\* An operation on its way to the lockout, or turned down.
LEMMA EnterKeeps ==
    ASSUME Inv, NEW c \in Callers, Enter(c)
    PROVE  Inv'
  <1> USE FlashOpConstants DEF Enter, phase, helper, chip, Goes, Return, Runs, TurnedDown
  <1>1. TypeInv'
    BY DEF Inv, TypeInv, Calls, Helds, Kinds, Old, Nothing, Nobody, Places, RaisedAt, Uninterrupted
  <1>2. OwnInv'
    BY DEF Inv, TypeInv, OwnInv, Calls, InSlots, Places, RaisedAt, Uninterrupted
  <1>3. PieceInv'
    BY DEF Inv, TypeInv, OwnInv, PieceInv, Calls, InSlots, Nobody, Places, RaisedAt, Uninterrupted
  <1>4. LockInv'
    BY DEF Inv, TypeInv, OwnInv, PieceInv, LockInv, Calls, Claiming, Places, RaisedAt, Uninterrupted
  <1> QED BY <1>1, <1>2, <1>3, <1>4 DEF Inv

\* One task is raised: no other was, to let it run.
LEMMA RaiseKeeps ==
    ASSUME Inv, NEW c \in Callers, Raise(c)
    PROVE  Inv'
  <1> USE FlashOpConstants DEF Raise, phase, helper, chip, Goes, Return, Runs
  <1>1. TypeInv'
    BY DEF Inv, TypeInv, Calls, Helds, Kinds, Old, Nothing, Nobody, Places, RaisedAt, Uninterrupted
  <1>2. OwnInv'
    BY DEF Inv, TypeInv, OwnInv, Calls, InSlots, Places, RaisedAt, Uninterrupted
  <1>3. PieceInv'
    BY DEF Inv, TypeInv, OwnInv, PieceInv, Calls, InSlots, Nobody, Places, RaisedAt, Uninterrupted
  <1>4. LockInv'
    BY DEF Inv, TypeInv, OwnInv, PieceInv, LockInv, Calls, Claiming, Places, RaisedAt, Uninterrupted
  <1> QED BY <1>1, <1>2, <1>3, <1>4 DEF Inv

\* The lockout is wanted by a task on its way to a wait, on the ground only.
LEMMA ClaimKeeps ==
    ASSUME Inv, NEW c \in Callers, Claim(c)
    PROVE  Inv'
  <1> USE FlashOpConstants DEF Claim, phase, helper, chip, Goes, Return, Runs, TurnedDown
  <1>1. TypeInv'
    BY DEF Inv, TypeInv, Calls, Helds, Kinds, Old, Nothing, Nobody, Places, RaisedAt, Uninterrupted
  <1>2. OwnInv'
    BY DEF Inv, TypeInv, OwnInv, Calls, InSlots, Places, RaisedAt, Uninterrupted
  <1>3. PieceInv'
    BY DEF Inv, TypeInv, OwnInv, PieceInv, Calls, InSlots, Nobody, Places, RaisedAt, Uninterrupted
  <1>4. LockInv'
    BY DEF Inv, TypeInv, OwnInv, PieceInv, LockInv, Calls, Claiming, Places, RaisedAt, Uninterrupted
  <1> QED BY <1>1, <1>2, <1>3, <1>4 DEF Inv

\* The helper is called.
LEMMA NotifyKeeps ==
    ASSUME Inv, NEW c \in Callers, Notify(c)
    PROVE  Inv'
  <1> USE FlashOpConstants DEF Notify, phase, helper, chip, Goes, Return, Runs
  <1>1. TypeInv'
    BY DEF Inv, TypeInv, Calls, Helds, Kinds, Old, Nothing, Nobody, Places, RaisedAt, Uninterrupted
  <1>2. OwnInv'
    BY DEF Inv, TypeInv, OwnInv, Calls, InSlots, Places, RaisedAt, Uninterrupted
  <1>3. PieceInv'
    BY DEF Inv, TypeInv, OwnInv, PieceInv, Calls, InSlots, Nobody, Places, RaisedAt, Uninterrupted
  <1>4. LockInv'
    BY DEF Inv, TypeInv, OwnInv, PieceInv, LockInv, Calls, Claiming, Places, RaisedAt, Uninterrupted
  <1> QED BY <1>1, <1>2, <1>3, <1>4 DEF Inv

\* Past the wait only with core0 parked.
LEMMA WaitKeeps ==
    ASSUME Inv, NEW c \in Callers, Wait(c)
    PROVE  Inv'
  <1> USE FlashOpConstants DEF Wait, phase, helper, chip, Goes, Return, Runs
  <1>1. TypeInv'
    BY DEF Inv, TypeInv, Calls, Helds, Kinds, Old, Nothing, Nobody, Places, RaisedAt, Uninterrupted
  <1>2. OwnInv'
    BY DEF Inv, TypeInv, OwnInv, Calls, InSlots, Places, RaisedAt, Uninterrupted
  <1>3. PieceInv'
    BY DEF Inv, TypeInv, OwnInv, PieceInv, Calls, InSlots, Nobody, Places, RaisedAt, Uninterrupted
  <1>4. LockInv'
    BY DEF Inv, TypeInv, OwnInv, PieceInv, LockInv, Calls, Claiming, Places, RaisedAt, Uninterrupted
  <1> QED BY <1>1, <1>2, <1>3, <1>4 DEF Inv

\* A claim withdrawn leaves nothing wanted.
LEMMA WithdrawKeeps ==
    ASSUME Inv, NEW c \in Callers, Withdraw(c)
    PROVE  Inv'
  <1> USE FlashOpConstants DEF Withdraw, phase, helper, chip, Goes, Return, Runs, TurnedDown
  <1>1. TypeInv'
    BY DEF Inv, TypeInv, Calls, Helds, Kinds, Old, Nothing, Nobody, Places, RaisedAt, Uninterrupted
  <1>2. OwnInv'
    BY DEF Inv, TypeInv, OwnInv, Calls, InSlots, Places, RaisedAt, Uninterrupted
  <1>3. PieceInv'
    BY DEF Inv, TypeInv, OwnInv, PieceInv, Calls, InSlots, Nobody, Places, RaisedAt, Uninterrupted
  <1>4. LockInv'
    BY DEF Inv, TypeInv, OwnInv, PieceInv, LockInv, Calls, Claiming, Places, RaisedAt, Uninterrupted
  <1> QED BY <1>1, <1>2, <1>3, <1>4 DEF Inv

\* A ground piece under the lockout claims none in flight.
LEMMA GroundBodyKeeps ==
    ASSUME Inv, NEW c \in Callers, GroundBody(c)
    PROVE  Inv'
  <1> USE FlashOpConstants
  <1>1. /\ at[c] = "BODY" /\ call[c].ground /\ at' = [at EXCEPT ![c] = "RELEASE"]
        /\ UNCHANGED <<flight, landed, stalled, slot_req, lk, notified, spinning, parked, left>>
    BY DEF GroundBody, Goes, phase, helper
  <1>2. /\ call' \in [Callers -> Calls] /\ held' \in Helds /\ held_suspended' \in BOOLEAN
        /\ piece_busy' = piece_busy \/ piece_busy' = FALSE
        /\ \A d \in Callers : call'[d].slotted = call[d].slotted /\ call'[d].ground = call[d].ground
        /\ \A d \in Callers : d # c => call'[d] = call[d]
    <2>1. CASE \E outcome \in Outcomes(c) : Comes(c, outcome)
      BY <2>1, ComesWell DEF CameWell
    <2>2. CASE call' = [call EXCEPT ![c].ret = "AGAIN"] /\ UNCHANGED <<held, held_suspended, piece_busy>>
      BY <2>2 DEF Inv, TypeInv, Calls
    <2> QED BY <2>1, <2>2 DEF GroundBody
  <1>3. call[c].slotted /\ ~\E d \in Callers : at[d] \in {"PIECE", "RUN"}
    BY <1>1 DEF Inv, TypeInv, OwnInv, InSlots
  <1>4. TypeInv'
    <2>1. at' \in [Callers -> Places]
      BY <1>1 DEF Inv, TypeInv, Places, RaisedAt
    <2>2. piece_busy' \in BOOLEAN
      BY <1>2, Zenon DEF Inv, TypeInv
    <2> QED BY <1>1, <1>2, <2>1, <2>2, Zenon DEF Inv, TypeInv
  <1>5. OwnInv'
    BY <1>1, <1>2, <1>3 DEF Inv, TypeInv, OwnInv, InSlots, RaisedAt
  <1>6. PieceInv'
    <2>1. ~piece_busy' /\ ~\E d \in Callers : at'[d] \in {"PIECE", "RUN"}
      BY <1>1, <1>2, <1>3 DEF Inv, TypeInv, PieceInv
    <2> QED BY <1>1, <2>1 DEF Inv, TypeInv, PieceInv
  <1>7. LockInv'
    BY <1>1 DEF Inv, TypeInv, LockInv, Claiming, RaisedAt
  <1> QED BY <1>4, <1>5, <1>6, <1>7 DEF Inv

\* What runs whole begins under a parked core0.
LEMMA WholeBodyKeeps ==
    ASSUME Inv, NEW c \in Callers, WholeBody(c)
    PROVE  Inv'
  <1> USE FlashOpConstants
  <1>1. /\ at[c] = "BODY" /\ at' = [at EXCEPT ![c] = "WORK"] /\ held_suspended' = FALSE
        /\ UNCHANGED <<flight, landed, stalled, slot_req, lk, notified, spinning, parked, piece_busy>>
    BY DEF WholeBody, Goes, phase, helper
  <1>2. /\ call' \in [Callers -> Calls]
        /\ \A d \in Callers : /\ call'[d].slotted = call[d].slotted /\ call'[d].ground = call[d].ground
                             /\ call'[d].ret = IF d = c THEN "OK" ELSE call[d].ret
    BY DEF WholeBody, Inv, TypeInv, Calls
  <1>3. held' \in Helds
    BY DEF WholeBody, Inv, TypeInv, Helds
  <1>4. left' \in 0..(2 * Erase)
    <2>1. \A kind : Duration(kind) \in {0, Erase}
      BY DEF Duration
    <2>2. PICK finishes, mine \in BOOLEAN :
             left' = (IF finishes THEN Duration(held.kind) ELSE 0) + (IF mine THEN Duration(call[c].kind) ELSE 0)
      <3> DEFINE over == IF Finishes(c) THEN Nothing ELSE held
      <3>1. left' = (IF Finishes(c) THEN Duration(held.kind) ELSE 0)
                    + (IF ~call[c].resume /\ Takes(over, call[c].kind) THEN Duration(call[c].kind) ELSE 0)
        BY Zenon DEF WholeBody
      <3>2. Finishes(c) \in BOOLEAN /\ (~call[c].resume /\ Takes(over, call[c].kind)) \in BOOLEAN
        BY Zenon DEF Finishes
      <3> QED BY <3>1, <3>2, Zenon
    <2> QED BY <2>1, <2>2
  <1>5. TypeInv'
    <2>1. at' \in [Callers -> Places]
      BY <1>1 DEF Inv, TypeInv, Places, RaisedAt
    <2> QED BY <1>1, <1>2, <1>3, <1>4, <2>1, Zenon DEF Inv, TypeInv
  <1>6. OwnInv'
    BY <1>1, <1>2 DEF Inv, TypeInv, OwnInv, InSlots, RaisedAt
  <1>7. PieceInv'
    BY <1>1 DEF Inv, TypeInv, PieceInv
  <1>8. LockInv'
    BY <1>1 DEF Inv, TypeInv, LockInv, Claiming, RaisedAt
  <1> QED BY <1>5, <1>6, <1>7, <1>8 DEF Inv

\* What runs whole ends.
LEMMA WorkEndsKeeps ==
    ASSUME Inv, NEW c \in Callers, WorkEnds(c)
    PROVE  Inv'
  <1> USE FlashOpConstants DEF WorkEnds, phase, helper, chip, Goes, Return, Runs
  <1>1. TypeInv'
    BY DEF Inv, TypeInv, Calls, Helds, Kinds, Old, Nothing, Nobody, Places, RaisedAt, Uninterrupted
  <1>2. OwnInv'
    BY DEF Inv, TypeInv, OwnInv, Calls, InSlots, Places, RaisedAt, Uninterrupted
  <1>3. PieceInv'
    BY DEF Inv, TypeInv, OwnInv, PieceInv, Calls, InSlots, Nobody, Places, RaisedAt, Uninterrupted
  <1>4. LockInv'
    BY DEF Inv, TypeInv, OwnInv, PieceInv, LockInv, Calls, Claiming, Places, RaisedAt, Uninterrupted
  <1> QED BY <1>1, <1>2, <1>3, <1>4 DEF Inv

\* The lockout is let go.
LEMMA ReleaseKeeps ==
    ASSUME Inv, NEW c \in Callers, Release(c)
    PROVE  Inv'
  <1> USE FlashOpConstants DEF Release, phase, helper, chip, Goes, Return, Runs
  <1>1. TypeInv'
    BY DEF Inv, TypeInv, Calls, Helds, Kinds, Old, Nothing, Nobody, Places, RaisedAt, Uninterrupted
  <1>2. OwnInv'
    BY DEF Inv, TypeInv, OwnInv, Calls, InSlots, Places, RaisedAt, Uninterrupted
  <1>3. PieceInv'
    BY DEF Inv, TypeInv, OwnInv, PieceInv, Calls, InSlots, Nobody, Places, RaisedAt, Uninterrupted
  <1>4. LockInv'
    BY DEF Inv, TypeInv, OwnInv, PieceInv, LockInv, Calls, Claiming, Places, RaisedAt, Uninterrupted
  <1> QED BY <1>1, <1>2, <1>3, <1>4 DEF Inv

\* The task is lowered.
LEMMA LowerKeeps ==
    ASSUME Inv, NEW c \in Callers, Lower(c)
    PROVE  Inv'
  <1> USE FlashOpConstants DEF Lower, phase, helper, chip, Goes, Return, Runs
  <1>1. TypeInv'
    BY DEF Inv, TypeInv, Calls, Helds, Kinds, Old, Nothing, Nobody, Places, RaisedAt, Uninterrupted
  <1>2. OwnInv'
    BY DEF Inv, TypeInv, OwnInv, Calls, InSlots, Places, RaisedAt, Uninterrupted
  <1>3. PieceInv'
    BY DEF Inv, TypeInv, OwnInv, PieceInv, Calls, InSlots, Nobody, Places, RaisedAt, Uninterrupted
  <1>4. LockInv'
    BY DEF Inv, TypeInv, OwnInv, PieceInv, LockInv, Calls, Claiming, Places, RaisedAt, Uninterrupted
  <1> QED BY <1>1, <1>2, <1>3, <1>4 DEF Inv

\* The helper parks for a claim that stands, and so not in flight.
LEMMA HelperWakesKeeps ==
    ASSUME Inv, HelperWakes
    PROVE  Inv'
  <1> USE FlashOpConstants DEF HelperWakes, phase, helper, chip, Goes, Return, Runs
  <1>1. TypeInv'
    BY DEF Inv, TypeInv, Calls, Helds, Kinds, Old, Nothing, Nobody, Places, RaisedAt, Uninterrupted
  <1>2. OwnInv'
    BY DEF Inv, TypeInv, OwnInv, Calls, InSlots, Places, RaisedAt, Uninterrupted
  <1>3. PieceInv'
    BY DEF Inv, TypeInv, OwnInv, PieceInv, Calls, InSlots, Nobody, Places, RaisedAt, Uninterrupted
  <1>4. LockInv'
    BY DEF Inv, TypeInv, OwnInv, PieceInv, LockInv, Calls, Claiming, Places, RaisedAt, Uninterrupted
  <1> QED BY <1>1, <1>2, <1>3, <1>4 DEF Inv

\* The helper leaves, released or past its bound.
LEMMA HelperLeavesKeeps ==
    ASSUME Inv, HelperLeaves
    PROVE  Inv'
  <1> USE FlashOpConstants DEF HelperLeaves, phase, helper, chip, Goes, Return, Runs
  <1>1. TypeInv'
    <2>1. parked' \in 0..ParkMax
      OBVIOUS
    <2> QED BY <2>1 DEF Inv, TypeInv
  <1>2. OwnInv'
    BY DEF Inv, TypeInv, OwnInv, Calls, InSlots, Places, RaisedAt, Uninterrupted
  <1>3. PieceInv'
    BY DEF Inv, TypeInv, OwnInv, PieceInv, Calls, InSlots, Nobody, Places, RaisedAt, Uninterrupted
  <1>4. LockInv'
    BY DEF Inv, TypeInv, OwnInv, PieceInv, LockInv, Calls, Claiming, Places, RaisedAt, Uninterrupted
  <1> QED BY <1>1, <1>2, <1>3, <1>4 DEF Inv

\* No task is raised as a flight begins.
LEMMA FlightBeginKeeps ==
    ASSUME Inv, FlightBegin
    PROVE  Inv'
  <1> USE FlashOpConstants DEF FlightBegin, phase, helper, chip, Goes, Return, Runs
  <1>1. TypeInv'
    BY DEF Inv, TypeInv, Calls, Helds, Kinds, Old, Nothing, Nobody, Places, RaisedAt, Uninterrupted
  <1>2. OwnInv'
    BY DEF Inv, TypeInv, OwnInv, Calls, InSlots, Places, RaisedAt, Uninterrupted
  <1>3. PieceInv'
    BY DEF Inv, TypeInv, OwnInv, PieceInv, Calls, InSlots, Nobody, Places, RaisedAt, Uninterrupted
  <1>4. LockInv'
    BY DEF Raised, Inv, TypeInv, LockInv, Claiming, RaisedAt
  <1> QED BY <1>1, <1>2, <1>3, <1>4 DEF Inv

\* No piece runs as a flight ends, while the chip answers.
LEMMA FlightEndKeeps ==
    ASSUME Inv, FlightEnd
    PROVE  Inv'
  <1> USE FlashOpConstants DEF FlightEnd, phase, helper, chip, Goes, Return, Runs
  <1>1. TypeInv'
    BY DEF Inv, TypeInv, Calls, Helds, Kinds, Old, Nothing, Nobody, Places, RaisedAt, Uninterrupted
  <1>2. OwnInv'
    BY DEF Inv, TypeInv, OwnInv, Calls, InSlots, Places, RaisedAt, Uninterrupted
  <1>3. PieceInv'
    BY DEF Inv, TypeInv, OwnInv, PieceInv, Calls, InSlots, Nobody, Places, RaisedAt, Uninterrupted
  <1>4. LockInv'
    <2>1. \A c \in Callers : at[c] \in {"PIECE", "RUN"} => at[c] = "RUN" /\ stalled' = TRUE
      BY DEF Inv, OwnInv, PieceInv, InSlots
    <2>2. UNCHANGED <<lk, helper, at>> /\ flight' = FALSE
      OBVIOUS
    <2> HIDE DEF FlightEnd
    <2> QED BY <2>1, <2>2 DEF Inv, LockInv
  <1> QED BY <1>1, <1>2, <1>3, <1>4 DEF Inv

\* Time goes by under what runs whole.
LEMMA TickKeeps ==
    ASSUME Inv, Tick
    PROVE  Inv'
  <1> USE FlashOpConstants DEF Tick, phase, helper, chip, Goes, Return, Runs
  <1>1. TypeInv'
    <2>1. parked' \in 0..ParkMax
      BY DEF Inv, TypeInv
    <2>2. left' \in 0..(2 * Erase)
      BY DEF Inv, TypeInv
    <2>3. stalled' \in BOOLEAN
      BY DEF Inv, TypeInv
    <2> QED BY <2>1, <2>2, <2>3 DEF Inv, TypeInv
  <1>2. OwnInv'
    BY DEF Inv, TypeInv, OwnInv, Calls, InSlots, Places, RaisedAt, Uninterrupted
  <1>3. PieceInv'
    BY DEF Inv, TypeInv, OwnInv, PieceInv, Calls, InSlots, Nobody, Places, RaisedAt, Uninterrupted
  <1>4. LockInv'
    BY DEF Inv, TypeInv, OwnInv, PieceInv, LockInv, Calls, Claiming, Places, RaisedAt, Uninterrupted
  <1> QED BY <1>1, <1>2, <1>3, <1>4 DEF Inv

\* The invariant holds at boot, and through every step.
LEMMA InvInit == Init => Inv
  <1> SUFFICES ASSUME Init PROVE Inv
    OBVIOUS
  <1>1. TypeInv
    <2>1. Resting \in Calls /\ Nothing \in Helds
      BY DEF Resting, Calls, Kinds, Helds
    <2>2. parked \in 0..ParkMax /\ left \in 0..(2 * Erase)
      BY FlashOpConstants DEF Init
    <2>3. at \in [Callers -> Places] /\ call \in [Callers -> Calls]
      BY <2>1 DEF Init, Places
    <2> QED BY <2>1, <2>2, <2>3, Zenon DEF Init, TypeInv
  <1>2. \A c \in Callers : at[c] = "IDLE" /\ call[c] = Resting
    BY DEF Init
  <1>3. OwnInv
    BY <1>2 DEF OwnInv, Resting, InSlots, RaisedAt, Uninterrupted
  <1>4. PieceInv
    BY <1>2, FlashOpConstants DEF Init, PieceInv, Nobody
  <1>5. LockInv
    BY <1>2 DEF Init, LockInv, Claiming, RaisedAt
  <1> QED BY <1>1, <1>3, <1>4, <1>5 DEF Inv

LEMMA InvStep == Inv /\ [Next]_vars => Inv'
  <1> SUFFICES ASSUME Inv, [Next]_vars PROVE Inv'
    OBVIOUS
  <1>1. ASSUME NEW c \in Callers, SlotOp(c) \/ PlainOp(c) \/ SlotsSpent(c) \/ Continue(c)
        PROVE  Inv'
    BY <1>1, SlotOpKeeps, PlainOpKeeps, SlotsSpentKeeps, SlotLoopKeeps, AskAlarmKeeps, SlotIsrKeeps,
       StopWaitingKeeps, SlotStartKeeps, TryPieceKeeps, PieceStartsKeeps, RunPieceKeeps, EnterKeeps,
       RaiseKeeps, ClaimKeeps, NotifyKeeps, WaitKeeps, WithdrawKeeps, GroundBodyKeeps, WholeBodyKeeps,
       WorkEndsKeeps, ReleaseKeeps, LowerKeeps DEF Continue
  <1>2. CASE HelperWakes \/ HelperLeaves \/ FlightBegin \/ FlightEnd \/ Tick
    BY <1>2, HelperWakesKeeps, HelperLeavesKeeps, FlightBeginKeeps, FlightEndKeeps, TickKeeps
  <1>3. CASE UNCHANGED vars
    BY <1>3 DEF vars, phase, helper, chip, Inv, TypeInv, OwnInv, PieceInv, LockInv
  <1> QED BY <1>1, <1>2, <1>3 DEF Next

\* So does the time that is left.
LEMMA ParkInit == Init => ParkInv
  BY DEF Init, ParkInv

\* A caller's step neither ends the time of another that runs whole, nor begins
\* its own but at its body.
LEMMA CallerParks ==
    ASSUME Inv, ParkInv, NEW c \in Callers, SlotOp(c) \/ PlainOp(c) \/ SlotsSpent(c) \/ Continue(c)
    PROVE  ParkInv'
  <1>1. CASE WholeBody(c)
    <2>1. at[c] = "BODY" /\ at' = [at EXCEPT ![c] = "WORK"] /\ lk' = lk /\ parked' = parked
      BY <1>1 DEF WholeBody, Goes, helper
    <2>2. left' \in 0..(2 * Erase)
      BY <1>1, WholeBodyKeeps DEF Inv, TypeInv
    <2>3. \A d \in Callers : at'[d] = "WORK" => d = c
      BY <2>1 DEF Inv, TypeInv, OwnInv, RaisedAt
    <2>4. lk = "PARKED" /\ parked = 0
      BY <2>1 DEF Inv, LockInv
    <2> QED BY FlashOpConstants, <2>1, <2>2, <2>3, <2>4 DEF ParkInv
  <1>2. CASE ~WholeBody(c)
    <2>1. left' = left /\ parked' = parked /\ stalled' = stalled
      BY <1>2 DEF Continue, SlotOp, PlainOp, SlotsSpent, SlotLoop, AskAlarm, SlotIsr, StopWaiting, SlotStart,
         TryPiece, PieceStarts, RunPiece, Enter, Raise, Claim, Notify, Wait, Withdraw, GroundBody, WorkEnds,
         Release, Lower, phase, helper, chip
    <2>2. \A d \in Callers : at'[d] = "WORK" => at[d] = "WORK" /\ (lk' = lk \/ (at[c] \in RaisedAt /\ d # c))
      <3>1. CASE SlotOp(c) \/ PlainOp(c) \/ SlotsSpent(c)
        BY <3>1 DEF SlotOp, PlainOp, SlotsSpent, Return, Goes, Inv, TypeInv
      <3>2. CASE SlotLoop(c) \/ AskAlarm(c) \/ StopWaiting(c) \/ SlotStart(c) \/ PieceStarts(c) \/ Raise(c)
                   \/ SlotIsr(c) \/ TryPiece(c)
        BY <3>2 DEF SlotLoop, AskAlarm, StopWaiting, SlotStart, PieceStarts, Raise, SlotIsr, TryPiece, NotYet,
           Return, Goes, Inv, TypeInv
      <3>3. CASE RunPiece(c)
        BY <3>3 DEF RunPiece, Goes, Inv, TypeInv
      <3>4. CASE Enter(c) \/ Claim(c) \/ Withdraw(c)
        BY <3>4 DEF Enter, Claim, Withdraw, TurnedDown, Return, Goes, RaisedAt, Inv, TypeInv
      <3>5. CASE Notify(c) \/ Wait(c) \/ GroundBody(c) \/ WorkEnds(c) \/ Release(c) \/ Lower(c)
        BY <3>5 DEF Notify, Wait, GroundBody, WorkEnds, Release, Lower, Return, Goes, RaisedAt, Inv, TypeInv
      <3> QED BY <1>2, <3>1, <3>2, <3>3, <3>4, <3>5 DEF Continue
    <2>3. \A d \in Callers : at'[d] = "WORK" => at[d] = "WORK" /\ lk' = lk
      BY <2>2 DEF Inv, OwnInv, RaisedAt
    <2> QED BY <2>1, <2>3 DEF ParkInv
  <1> QED BY <1>1, <1>2

\* A helper that outlasts two erases is not gone before what runs whole ends.
LEMMA ParkStep ==
    ASSUME 2 * Erase < ParkMax, Inv, ParkInv, [Next]_vars
    PROVE  ParkInv'
  <1> USE FlashOpConstants
  <1>1. ASSUME NEW c \in Callers, SlotOp(c) \/ PlainOp(c) \/ SlotsSpent(c) \/ Continue(c)
        PROVE  ParkInv'
    BY <1>1, CallerParks
  <1>2. CASE HelperWakes
    BY <1>2 DEF HelperWakes, phase, chip, Inv, LockInv, ParkInv
  <1>3. CASE HelperLeaves
    BY <1>3 DEF HelperLeaves, phase, chip, Inv, TypeInv, ParkInv
  <1>4. CASE FlightBegin \/ FlightEnd
    BY <1>4 DEF FlightBegin, FlightEnd, helper, chip, ParkInv
  <1>5. CASE Tick
    BY <1>5 DEF Tick, Inv, TypeInv, LockInv, ParkInv
  <1>6. CASE UNCHANGED vars
    BY <1>6 DEF vars, phase, helper, chip, ParkInv
  <1> QED BY <1>1, <1>2, <1>3, <1>4, <1>5, <1>6 DEF Next

-----------------------------------------------------------------------------
(* What the chip holds, and what an operation has done.                      *)

\* On its way to a piece or to a lockout.
Trying(c) ==
    \/ at[c] \notin {"IDLE", "RELEASE", "LOWER"}
    \/ at[c] \in {"RELEASE", "LOWER"} /\ call[c].ret = "AGAIN"

Does(c) == call[c].done \/ held.of = Old

\* What the chip holds is known of, and is its caller's or was given up; a caller
\* that will resume has it held there, or it was finished by another.
ChipInv ==
    /\ held # Nothing => held_suspended = TRUE
    /\ \A c \in Callers : held.of = c => at[c] # "IDLE" /\ call[c].resume = TRUE
    /\ \A c \in Callers : at[c] # "IDLE" /\ call[c].resume = TRUE => call[c].slotted = TRUE
    /\ \A c \in Callers : Trying(c) /\ call[c].resume = TRUE =>
           held.of = c \/ (held = Nothing /\ call[c].done = TRUE)
    /\ \A c \in Callers : at[c] = "WORK" => call[c].done = TRUE
    /\ \A c \in Callers : at[c] \in {"RELEASE", "LOWER"} /\ call[c].ret = "OK" => Does(c)

\* A caller that ends with 0 did its operation, or the chip holds one given up.
EndsDone == \A c \in Callers : at[c] # "IDLE" /\ at'[c] = "IDLE" /\ call'[c].ret = "OK"
                                   => call'[c].done \/ held.of = Old

Marks == Old \notin Callers /\ Nothing.of \notin Callers /\ Nothing.of # Old

LEMMA MarksApart == Marks
  BY FlashOpConstants DEF Marks, Old, Nothing

\* A caller goes from one place to the next, with nothing done.
LEMMA MoveChip ==
    ASSUME Inv, ChipInv, NEW c \in Callers, NEW p \in Places, at' = [at EXCEPT ![c] = p],
           UNCHANGED <<held, held_suspended, call>>,
           at[c] # "IDLE", p # "IDLE", p # "WORK",
           p \in {"RELEASE", "LOWER"} /\ call[c].ret = "OK" => Does(c),
           Trying(c)' => Trying(c)
    PROVE  ChipInv' /\ EndsDone
  <1>1. \A d \in Callers : at'[d] = IF d = c THEN p ELSE at[d]
    BY DEF Inv, TypeInv
  <1>2. \A d \in Callers : Trying(d)' => Trying(d)
    BY <1>1 DEF Trying
  <1> QED BY <1>1, <1>2 DEF ChipInv, EndsDone, Does

\* It ends otherwise than with 0, or done, or over an operation given up.
LEMMA ReturnChip ==
    ASSUME Inv, ChipInv, NEW c \in Callers, NEW ret \in {"OK", "REFUSED", "FAILED", "NONE"}, Return(c, ret),
           held_suspended' = held_suspended, at[c] # "IDLE", ret = "OK" => Does(c)
    PROVE  ChipInv' /\ EndsDone
  <1>1. \A d \in Callers : at'[d] = IF d = c THEN "IDLE" ELSE at[d]
    BY DEF Inv, TypeInv, Return, Goes
  <1>2. \A d \in Callers : /\ call'[d].done = call[d].done /\ call'[d].resume = call[d].resume
                           /\ call'[d].slotted = call[d].slotted
                           /\ call'[d].ret = IF d = c THEN ret ELSE call[d].ret
    BY DEF Inv, TypeInv, Return, Calls
  <1>3. \/ held.of = c /\ held'.of = Old
        \/ held.of # c /\ held' = held
    BY DEF Return, Inv, TypeInv, Helds, Nothing
  <1>4. held' # Nothing => held # Nothing
    BY <1>3, MarksApart DEF Marks
  <1>5. \A d \in Callers : d # c => (Trying(d)' <=> Trying(d))
    BY <1>1, <1>2 DEF Trying
  <1>6. ~Trying(c)'
    BY <1>1 DEF Trying
  <1>7. EndsDone
    BY <1>1, <1>2 DEF EndsDone, Does
  <1>8. (held # Nothing => held_suspended = TRUE)'
    BY <1>4 DEF ChipInv
  <1>9. (\A d \in Callers : held.of = d => at[d] # "IDLE" /\ call[d].resume = TRUE)'
    BY <1>1, <1>2, <1>3, MarksApart DEF ChipInv, Marks
  <1>10. (\A d \in Callers : at[d] # "IDLE" /\ call[d].resume = TRUE => call[d].slotted = TRUE)'
    BY <1>1, <1>2 DEF ChipInv
  <1>11. (\A d \in Callers : Trying(d) /\ call[d].resume = TRUE =>
              held.of = d \/ (held = Nothing /\ call[d].done = TRUE))'
    BY <1>2, <1>3, <1>5, <1>6, MarksApart DEF ChipInv, Marks
  <1>12. (\A d \in Callers : at[d] = "WORK" => call[d].done = TRUE)'
    BY <1>1, <1>2 DEF ChipInv
  <1>13. (\A d \in Callers : at[d] \in {"RELEASE", "LOWER"} /\ call[d].ret = "OK" => Does(d))'
    BY <1>1, <1>2, <1>3 DEF ChipInv, Does
  <1> QED BY <1>7, <1>8, <1>9, <1>10, <1>11, <1>12, <1>13 DEF ChipInv

\* What a piece leaves on the chip, whoever runs it.
LEMMA PieceLeaves ==
    ASSUME Inv, ChipInv, NEW c \in Callers, NEW outcome \in Outcomes(c), Comes(c, outcome),
           at[c] = "RUN" \/ (at[c] = "BODY" /\ call[c].ground = TRUE)
    PROVE  /\ held' # Nothing => held_suspended' = TRUE
           /\ held'.of = c => call'[c].resume = TRUE /\ outcome.ret = "AGAIN"
           /\ outcome.ret = "AGAIN" => held'.of = c
           /\ outcome.ret = "OK" => call'[c].done = TRUE \/ (held.of = Old /\ held' = held)
           /\ call'[c].slotted = TRUE
           /\ \A d \in Callers : held'.of = d => d = c
           /\ \A d \in Callers : d # c => /\ call'[d] = call[d]
                                          /\ ~(at[d] # "IDLE" /\ call[d].resume = TRUE)
                                          /\ at[d] \notin {"RELEASE", "LOWER"}
  <1> DEFINE mine == call[c].resume /\ held.of = c
             started == ~call[c].resume /\ Takes(held, call[c].kind)
             Leaves(ret, of) == [ret |-> ret, held |-> [of |-> of, kind |-> call[c].kind], done |-> FALSE]
  <1>1. CameWell(c, outcome)
    BY ComesWell
  <1>2. call[c].slotted = TRUE
    BY DEF Inv, OwnInv, InSlots, TypeInv, Calls
  <1>3. \A d \in Callers : d # c => ~(at[d] # "IDLE" /\ call[d].resume = TRUE)
    BY <1>2 DEF Inv, OwnInv, ChipInv
  <1>4. \A d \in Callers : held.of = d => d = c
    BY <1>3 DEF ChipInv
  <1>5. held = Nothing \/ held.of = c \/ held.of = Old
    BY <1>4 DEF Inv, TypeInv, Helds
  <1>6. Trying(c) /\ call[c].resume \in BOOLEAN /\ held_suspended \in BOOLEAN
    BY DEF Trying, Inv, TypeInv, Calls
  <1>7. call[c].resume = TRUE => held.of = c \/ (held = Nothing /\ call[c].done = TRUE)
    BY <1>6 DEF ChipInv
  <1>8. call[c].resume = FALSE => held.of # c
    BY DEF ChipInv
  <1>9. \A d \in Callers : d # c => at[d] \notin {"RELEASE", "LOWER"}
    BY DEF Inv, OwnInv, LockInv, RaisedAt
  <1>10. /\ held' = outcome.held /\ held_suspended' = Held(call[c].resume, outcome.ret # "OK")
         /\ call'[c].ret = outcome.ret /\ call'[c].done = outcome.done
         /\ call'[c].resume = (call[c].resume \/ outcome.ret = "AGAIN")
    BY DEF Comes, Inv, TypeInv, Calls
  <1>11. call'[c].slotted = TRUE /\ \A d \in Callers : d # c => call'[d] = call[d]
    BY <1>1, <1>2 DEF CameWell
  <1>12. CASE outcome = [ret |-> "OK", held |-> IF mine THEN Nothing ELSE held,
                         done |-> call[c].done \/ mine \/ started]
    <2>1. outcome.ret = "OK" /\ outcome.held = (IF mine THEN Nothing ELSE held)
          /\ outcome.done = (call[c].done \/ mine \/ started)
      BY <1>12
    <2>2. CASE call[c].resume = TRUE
      <3>1. held' = Nothing
        BY <2>1, <2>2, <1>7, <1>10
      <3>2. call'[c].done = TRUE
        BY <2>1, <2>2, <1>7, <1>10
      <3> QED BY <3>1, <3>2, <2>1, <1>3, <1>9, <1>11, MarksApart DEF Marks
    <2>3. CASE call[c].resume = FALSE
      <3>1. held' = held /\ held.of # c
        BY <2>1, <2>3, <1>8, <1>10
      <3>2. held_suspended' = held_suspended
        BY <2>1, <2>3, <1>6, <1>10 DEF Held
      <3>3. held = Nothing => call'[c].done = TRUE
        BY <2>1, <2>3, <1>10 DEF Takes
      <3> QED BY <3>1, <3>2, <3>3, <2>1, <1>3, <1>4, <1>5, <1>9, <1>11 DEF ChipInv
    <2> QED BY <2>2, <2>3, <1>6
  <1>13. CASE outcome \in {Leaves("AGAIN", c), Leaves("FAILED", Old)}
    <2>1. outcome.ret # "OK" => held_suspended' = TRUE
      BY <1>10, Zenon DEF Held
    <2>2. CASE outcome = Leaves("AGAIN", c)
      <3>1. held'.of = c /\ outcome.ret = "AGAIN" /\ call'[c].resume = TRUE
        BY <2>2, <1>10
      <3> QED BY <2>1, <3>1, <1>3, <1>9, <1>11
    <2>3. CASE outcome = Leaves("FAILED", Old)
      <3>1. held'.of = Old /\ outcome.ret = "FAILED"
        BY <2>3, <1>10
      <3> QED BY <2>1, <3>1, <1>3, <1>9, <1>11, MarksApart DEF Marks
    <2> QED BY <1>13, <2>2, <2>3
  <1> QED BY <1>12, <1>13 DEF Outcomes

\* A piece in flight ends its operation, or is gone on with.
LEMMA RunPieceChip ==
    ASSUME Inv, ChipInv, NEW c \in Callers, RunPiece(c)
    PROVE  ChipInv' /\ EndsDone
  <1>1. PICK outcome \in Outcomes(c) :
           /\ at[c] = "RUN" /\ Comes(c, outcome)
           /\ at' = [at EXCEPT ![c] = IF outcome.ret = "AGAIN" THEN "NEXT" ELSE "IDLE"]
    BY DEF RunPiece, Goes
  <1>2. /\ held' # Nothing => held_suspended' = TRUE
        /\ held'.of = c => call'[c].resume = TRUE /\ outcome.ret = "AGAIN"
        /\ outcome.ret = "AGAIN" => held'.of = c
        /\ outcome.ret = "OK" => call'[c].done = TRUE \/ (held.of = Old /\ held' = held)
        /\ call'[c].slotted = TRUE
        /\ \A d \in Callers : held'.of = d => d = c
        /\ \A d \in Callers : d # c => /\ call'[d] = call[d]
                                       /\ ~(at[d] # "IDLE" /\ call[d].resume = TRUE)
                                       /\ at[d] \notin {"RELEASE", "LOWER"}
    BY <1>1, PieceLeaves
  <1>3. at'[c] = (IF outcome.ret = "AGAIN" THEN "NEXT" ELSE "IDLE") /\ \A d \in Callers : d # c => at'[d] = at[d]
    BY <1>1 DEF Inv, TypeInv
  <1>4. call'[c].ret = outcome.ret
    BY <1>1 DEF Comes, Inv, TypeInv, Calls
  <1>5. EndsDone
    BY <1>2, <1>3, <1>4 DEF EndsDone
  <1>6. \A d \in Callers : (Trying(d) /\ call[d].resume = TRUE)' => d = c /\ outcome.ret = "AGAIN"
    BY <1>2, <1>3 DEF Trying
  <1>7. \A d \in Callers : at'[d] = "WORK" => d # c
    BY <1>3
  <1>8. \A d \in Callers : at'[d] \notin {"RELEASE", "LOWER"}
    BY <1>2, <1>3
  <1> QED BY <1>2, <1>3, <1>5, <1>6, <1>7, <1>8 DEF ChipInv

\* A ground piece comes to the release, ended, to be gone on with or not tried.
LEMMA GroundBodyChip ==
    ASSUME Inv, ChipInv, NEW c \in Callers, GroundBody(c)
    PROVE  ChipInv' /\ EndsDone
  <1>1. at[c] = "BODY" /\ call[c].ground = TRUE /\ at' = [at EXCEPT ![c] = "RELEASE"]
    BY DEF GroundBody, Goes, Inv, TypeInv, Calls
  <1>2. at'[c] = "RELEASE" /\ \A d \in Callers : d # c => at'[d] = at[d]
    BY <1>1 DEF Inv, TypeInv
  <1>3. EndsDone
    BY <1>2 DEF EndsDone
  <1>4. CASE \E outcome \in Outcomes(c) : Comes(c, outcome)
    <2>1. PICK outcome \in Outcomes(c) : Comes(c, outcome)
      BY <1>4
    <2>2. /\ held' # Nothing => held_suspended' = TRUE
          /\ held'.of = c => call'[c].resume = TRUE /\ outcome.ret = "AGAIN"
          /\ outcome.ret = "AGAIN" => held'.of = c
          /\ outcome.ret = "OK" => call'[c].done = TRUE \/ (held.of = Old /\ held' = held)
          /\ call'[c].slotted = TRUE
          /\ \A d \in Callers : held'.of = d => d = c
          /\ \A d \in Callers : d # c => /\ call'[d] = call[d]
                                         /\ ~(at[d] # "IDLE" /\ call[d].resume = TRUE)
                                         /\ at[d] \notin {"RELEASE", "LOWER"}
      BY <1>1, <2>1, PieceLeaves
    <2>3. call'[c].ret = outcome.ret
      BY <2>1 DEF Comes, Inv, TypeInv, Calls
    <2>4. \A d \in Callers : (Trying(d) /\ call[d].resume = TRUE)' => d = c /\ outcome.ret = "AGAIN"
      BY <1>2, <2>2, <2>3 DEF Trying
    <2>5. \A d \in Callers : at'[d] \in {"RELEASE", "LOWER"} /\ call'[d].ret = "OK" =>
              d = c /\ (call'[c].done = TRUE \/ held'.of = Old)
      BY <1>2, <2>2, <2>3
    <2> QED BY <1>2, <1>3, <2>2, <2>4, <2>5 DEF ChipInv, Does
  <1>5. CASE call' = [call EXCEPT ![c].ret = "AGAIN"] /\ UNCHANGED <<held, held_suspended, piece_busy>>
    <2>1. \A d \in Callers : /\ call'[d].done = call[d].done /\ call'[d].resume = call[d].resume
                             /\ call'[d].slotted = call[d].slotted
                             /\ call'[d].ret = IF d = c THEN "AGAIN" ELSE call[d].ret
      BY <1>5 DEF Inv, TypeInv, Calls
    <2>2. \A d \in Callers : Trying(d)' => Trying(d)
      BY <1>1, <1>2, <2>1 DEF Trying
    <2> QED BY <1>1, <1>2, <1>3, <1>5, <2>1, <2>2 DEF ChipInv, Does
  <1> QED BY <1>4, <1>5 DEF GroundBody

\* What runs whole finishes what the chip holds, and does its own.
LEMMA WholeBodyChip ==
    ASSUME Inv, ChipInv, NEW c \in Callers, WholeBody(c)
    PROVE  ChipInv' /\ EndsDone
  <1> DEFINE over == IF Finishes(c) THEN Nothing ELSE held
             own == ~call[c].resume /\ Takes(over, call[c].kind)
  <1>1. at[c] = "BODY" /\ at' = [at EXCEPT ![c] = "WORK"] /\ held' = over
    BY DEF WholeBody, Goes
  <1>2. at'[c] = "WORK" /\ \A d \in Callers : d # c => at'[d] = at[d]
    BY <1>1 DEF Inv, TypeInv
  <1>3. call' = [d \in Callers |->
           [call[d] EXCEPT !.done = @ \/ (d = c /\ own) \/ (Finishes(c) /\ held.of = d),
                           !.ret = IF d = c THEN "OK" ELSE @]]
    BY DEF WholeBody
  <1>4. \A d \in Callers : /\ call'[d].resume = call[d].resume /\ call'[d].slotted = call[d].slotted
                           /\ call'[d].ret = IF d = c THEN "OK" ELSE call[d].ret
                           /\ call'[d].done = (call[d].done \/ (d = c /\ own) \/ (Finishes(c) /\ held.of = d))
    BY <1>3 DEF Inv, TypeInv, Calls
  <1>5. held_suspended = TRUE => Finishes(c)
    BY DEF Finishes
  <1>6. over = Nothing
    BY <1>5 DEF ChipInv
  <1>7. \A d \in Callers : d # c => at[d] \notin RaisedAt
    BY <1>1 DEF Inv, OwnInv, RaisedAt
  <1>8. \A d \in Callers : call[d].resume \in BOOLEAN /\ call'[d].done \in BOOLEAN /\ call[d].done \in BOOLEAN
    BY WholeBodyKeeps DEF Inv, TypeInv, Calls
  <1>9. \A d \in Callers : d # c /\ Trying(d)' => Trying(d)
    BY <1>2, <1>4 DEF Trying
  <1>10. Trying(c)
    BY <1>1 DEF Trying
  <1>11. \A d \in Callers : Trying(d)' /\ call'[d].resume = TRUE => call'[d].done = TRUE
    <2> SUFFICES ASSUME NEW d \in Callers, Trying(d)', call'[d].resume = TRUE PROVE call'[d].done = TRUE
      OBVIOUS
    <2>1. held.of = d \/ (held = Nothing /\ call[d].done = TRUE)
      BY <1>4, <1>9, <1>10 DEF ChipInv
    <2>2. held.of = d => held # Nothing
      BY MarksApart DEF Marks
    <2>3. held.of = d => Finishes(c)
      BY <2>2, <1>5 DEF ChipInv
    <2> QED BY <2>1, <2>3, <1>4, <1>8
  <1>12. call'[c].done = TRUE
    <2>1. CASE call[c].resume = TRUE
      BY <2>1, <1>4, <1>11, <1>2 DEF Trying
    <2>2. CASE call[c].resume = FALSE
      <3>1. own
        BY <2>2, <1>6 DEF Takes
      <3> QED BY <3>1, <1>4, <1>8
    <2> QED BY <2>1, <2>2, <1>8
  <1>13. held'.of \notin Callers
    BY <1>1, <1>6, MarksApart DEF Marks
  <1>14. \A d \in Callers : at'[d] = "WORK" => d = c
    BY <1>2, <1>7 DEF RaisedAt
  <1>15. \A d \in Callers : at'[d] \notin {"RELEASE", "LOWER"}
    BY <1>2, <1>7 DEF RaisedAt
  <1>16. EndsDone
    BY <1>2 DEF EndsDone
  <1>17. \A d \in Callers : at'[d] # "IDLE" /\ call'[d].resume = TRUE => call'[d].slotted = TRUE
    BY <1>1, <1>2, <1>4 DEF ChipInv
  <1> QED BY <1>1, <1>6, <1>11, <1>12, <1>13, <1>14, <1>15, <1>16, <1>17 DEF ChipInv

\* An operation begins with nothing done, and nothing of it held.
LEMMA BeginChip ==
    ASSUME Inv, ChipInv, NEW c \in Callers, SlotOp(c) \/ PlainOp(c)
    PROVE  ChipInv' /\ EndsDone
  <1>1. at[c] = "IDLE" /\ UNCHANGED <<held, held_suspended>>
    BY DEF SlotOp, PlainOp, chip
  <1>2. PICK p \in {"FIRST", "ENTER"} : at' = [at EXCEPT ![c] = p]
    BY DEF SlotOp, PlainOp, Goes
  <1>3. call'[c].resume = FALSE /\ \A d \in Callers : d # c => call'[d] = call[d]
    BY DEF SlotOp, PlainOp, Resting, Inv, TypeInv
  <1>4. at'[c] = p /\ \A d \in Callers : d # c => at'[d] = at[d]
    BY <1>2 DEF Inv, TypeInv
  <1>5. \A d \in Callers : d # c => (Trying(d)' <=> Trying(d))
    BY <1>3, <1>4 DEF Trying
  <1>6. EndsDone
    BY <1>1, <1>4 DEF EndsDone
  <1>7. \A d \in Callers : held.of = d => d # c
    BY <1>1 DEF ChipInv
  <1> QED BY <1>1, <1>3, <1>4, <1>5, <1>6, <1>7 DEF ChipInv, Does

\* Turned down, it is tried again or ends otherwise than with 0.
LEMMA TurnedDownChip ==
    ASSUME Inv, ChipInv, NEW c \in Callers, TurnedDown(c), held_suspended' = held_suspended,
           at[c] \notin {"IDLE", "RELEASE", "LOWER"}
    PROVE  ChipInv' /\ EndsDone
  <1>1. CASE Return(c, "REFUSED")
    BY <1>1, ReturnChip
  <1>2. CASE Goes(c, "NEXT") /\ UNCHANGED <<held, call>>
    <2>1. Trying(c)
      BY DEF Trying
    <2> QED BY <1>2, <2>1, MoveChip DEF Goes, Places
  <1> QED BY <1>1, <1>2 DEF TurnedDown

\* A piece that does not fit yet waits for the next slot; one that never will
\* is given up.
LEMMA NotYetChip ==
    ASSUME Inv, ChipInv, NEW c \in Callers, NotYet(c), held_suspended' = held_suspended,
           at[c] \notin {"IDLE", "RELEASE", "LOWER"}
    PROVE  ChipInv' /\ EndsDone
  <1>1. CASE Return(c, "FAILED")
    BY <1>1, ReturnChip
  <1>2. CASE Goes(c, "NEXT") /\ UNCHANGED <<held, call>>
    <2>1. Trying(c)
      BY DEF Trying
    <2> QED BY <1>2, <2>1, MoveChip DEF Goes, Places
  <1> QED BY <1>1, <1>2 DEF NotYet

\* The steps that go from one place to the next.
LEMMA WalkChip ==
    ASSUME Inv, ChipInv, NEW c \in Callers,
           \/ SlotLoop(c) \/ AskAlarm(c) \/ SlotStart(c) \/ PieceStarts(c) \/ Raise(c) \/ Notify(c) \/ Wait(c)
           \/ WorkEnds(c) \/ Release(c)
    PROVE  ChipInv' /\ EndsDone
  <1>1. UNCHANGED <<held, held_suspended, call>>
    BY DEF SlotLoop, AskAlarm, SlotStart, PieceStarts, Raise, Notify, Wait, WorkEnds, Release, chip
  <1>2. CASE SlotLoop(c) \/ AskAlarm(c) \/ SlotStart(c) \/ PieceStarts(c) \/ Raise(c) \/ Notify(c) \/ Wait(c)
    <2>1. PICK p \in Places \ {"IDLE", "WORK", "RELEASE", "LOWER"} : at' = [at EXCEPT ![c] = p]
      BY <1>2 DEF SlotLoop, AskAlarm, SlotStart, PieceStarts, Raise, Notify, Wait, Goes, Places, RaisedAt,
                  Uninterrupted
    <2>2. at[c] # "IDLE" /\ Trying(c)
      BY <1>2 DEF SlotLoop, AskAlarm, SlotStart, PieceStarts, Raise, Notify, Wait, Trying
    <2> QED BY <1>1, <2>1, <2>2, MoveChip
  <1>3. CASE WorkEnds(c)
    <2>1. at[c] = "WORK" /\ at' = [at EXCEPT ![c] = "RELEASE"] /\ Trying(c)
      BY <1>3 DEF WorkEnds, Goes, Trying
    <2>2. Does(c)
      BY <2>1 DEF ChipInv, Does
    <2> QED BY <1>1, <2>1, <2>2, MoveChip DEF Places, RaisedAt
  <1>4. CASE Release(c)
    <2>1. at[c] = "RELEASE" /\ at' = [at EXCEPT ![c] = "LOWER"]
      BY <1>4 DEF Release, Goes
    <2>2. at'[c] = "LOWER"
      BY <2>1 DEF Inv, TypeInv
    <2>3. Trying(c)' => Trying(c)
      BY <1>1, <2>1, <2>2 DEF Trying
    <2>4. call[c].ret = "OK" => Does(c)
      BY <2>1 DEF ChipInv
    <2> QED BY <1>1, <2>1, <2>3, <2>4, MoveChip DEF Places, RaisedAt
  <1> QED BY <1>2, <1>3, <1>4

\* A caller's step keeps it, and ends with 0 what was done.
LEMMA CallerChip ==
    ASSUME Inv, ChipInv, NEW c \in Callers, SlotOp(c) \/ PlainOp(c) \/ SlotsSpent(c) \/ Continue(c)
    PROVE  ChipInv' /\ EndsDone
  <1>1. CASE SlotsSpent(c)
    BY <1>1, ReturnChip DEF SlotsSpent
  <1>2. CASE SlotIsr(c)
    <2>1. at[c] = "ALARM" /\ Trying(c)
      BY <1>2 DEF SlotIsr, Inv, PieceInv, Trying
    <2>2. CASE NotYet(c)
      BY <1>2, <2>1, <2>2, NotYetChip DEF SlotIsr
    <2>3. CASE Goes(c, "PIECE") /\ UNCHANGED <<held, call>>
      BY <1>2, <2>1, <2>3, MoveChip DEF SlotIsr, Goes, Places
    <2> QED BY <1>2, <2>2, <2>3 DEF SlotIsr
  <1>3. CASE StopWaiting(c)
    BY <1>3, NotYetChip DEF StopWaiting
  <1>4. CASE TryPiece(c)
    <2>1. at[c] = "TRY" /\ Trying(c)
      BY <1>4 DEF TryPiece, Trying
    <2>2. CASE NotYet(c)
      BY <1>4, <2>1, <2>2, NotYetChip DEF TryPiece
    <2>3. CASE Goes(c, IF flight THEN "PIECE" ELSE "ENTER") /\ UNCHANGED <<held, call>>
      <3>1. PICK p \in {"PIECE", "ENTER"} : at' = [at EXCEPT ![c] = p]
        BY <2>3 DEF Goes
      <3> QED BY <1>4, <2>1, <2>3, <3>1, MoveChip DEF TryPiece, Places
    <2> QED BY <1>4, <2>2, <2>3 DEF TryPiece
  <1>5. CASE Enter(c) \/ Claim(c)
    <2>1. at[c] \in {"ENTER", "CLAIM"} /\ held_suspended' = held_suspended /\ Trying(c)
      BY <1>5 DEF Enter, Claim, Trying
    <2>2. CASE TurnedDown(c)
      BY <2>1, <2>2, TurnedDownChip
    <2>3. CASE (Goes(c, "RAISE") \/ Goes(c, "NOTIFY")) /\ UNCHANGED <<held, call>>
      BY <2>1, <2>3, MoveChip DEF Goes, Places, RaisedAt
    <2> QED BY <1>5, <2>2, <2>3 DEF Enter, Claim
  <1>6. CASE Withdraw(c)
    <2>1. at[c] = "WITHDRAW" /\ held_suspended' = held_suspended /\ Trying(c)
      BY <1>6 DEF Withdraw, Trying
    <2>2. CASE TurnedDown(c)
      BY <2>1, <2>2, TurnedDownChip
    <2>3. CASE Goes(c, "BODY") /\ UNCHANGED <<held, call>>
      BY <2>1, <2>3, MoveChip DEF Goes, Places, RaisedAt
    <2> QED BY <1>6, <2>2, <2>3 DEF Withdraw
  <1>7. CASE Lower(c)
    <2>1. at[c] = "LOWER" /\ held_suspended' = held_suspended
      BY <1>7 DEF Lower
    <2>2. CASE call[c].ret = "AGAIN" /\ Goes(c, "NEXT") /\ UNCHANGED <<held, call>>
      <3>1. Trying(c)
        BY <2>1, <2>2 DEF Trying
      <3> QED BY <2>1, <2>2, <3>1, MoveChip DEF Goes, Places
    <2>3. CASE call[c].ret # "AGAIN" /\ Return(c, call[c].ret)
      <3>1. call[c].ret \in {"NONE", "OK", "REFUSED", "FAILED"}
        BY <2>3 DEF Inv, TypeInv, Calls
      <3>2. call[c].ret = "OK" => Does(c)
        BY <2>1 DEF ChipInv
      <3> QED BY <2>1, <2>3, <3>1, <3>2, ReturnChip
    <2> QED BY <1>7, <2>2, <2>3 DEF Lower
  <1> QED BY <1>1, <1>2, <1>3, <1>4, <1>5, <1>6, <1>7, BeginChip, WalkChip, RunPieceChip, GroundBodyChip,
             WholeBodyChip DEF Continue

LEMMA ChipStep == Inv /\ ChipInv /\ [Next]_vars => ChipInv' /\ [EndsDone]_vars
  <1> SUFFICES ASSUME Inv, ChipInv, [Next]_vars PROVE ChipInv' /\ EndsDone
    OBVIOUS
  <1>1. ASSUME NEW c \in Callers, SlotOp(c) \/ PlainOp(c) \/ SlotsSpent(c) \/ Continue(c)
        PROVE  ChipInv' /\ EndsDone
    BY <1>1, CallerChip
  <1>2. CASE HelperWakes \/ HelperLeaves \/ FlightBegin \/ FlightEnd \/ Tick \/ UNCHANGED vars
    <2>1. UNCHANGED <<held, held_suspended, at, call>>
      BY <1>2 DEF HelperWakes, HelperLeaves, FlightBegin, FlightEnd, Tick, vars, chip
    <2> QED BY <2>1 DEF ChipInv, Trying, Does, EndsDone
  <1> QED BY <1>1, <1>2 DEF Next

LEMMA ChipInit == Init => ChipInv
  <1> SUFFICES ASSUME Init PROVE ChipInv
    OBVIOUS
  <1>1. held = Nothing /\ \A c \in Callers : at[c] = "IDLE"
    BY DEF Init
  <1> QED BY <1>1, MarksApart DEF ChipInv, Trying, Marks

-----------------------------------------------------------------------------
\* FLT-RT-03, and what it rests on: the lockout, the claimed piece and the alarm
\* have one owner each, and from a flight's first period to its landing core0
\* is not stopped, whatever was on its way when it began.
THEOREM LockoutAlwaysSound == Spec => []LockoutSound
  <1>1. Inv => TypeOK
    <2> SUFFICES ASSUME Inv PROVE TypeOK
      OBVIOUS
    <2>1. {flight, landed, stalled, notified, spinning, piece_busy, held_suspended} \subseteq BOOLEAN
      BY Zenon DEF Inv, TypeInv
    <2> QED BY <2>1, Zenon DEF Inv, TypeInv, OwnInv, PieceInv, TypeOK, Calls, Helds
  <1>2. Inv => NotStoppedInFlight
    BY Zenon DEF Inv, LockInv, NotStoppedInFlight
  <1> QED BY <1>1, <1>2, InvInit, InvStep, PTL DEF Spec, LockoutSound

\* DD-074, FLT-RT-02: core0 never fetches from a flash that does not read, while
\* the chip answers, if the helper's own bound is longer than two erases: the
\* one the chip held, and the caller's.
THEOREM XipAlwaysSafe ==
    ASSUME 2 * Erase < ParkMax
    PROVE  Spec => []XipSafe
  <1>1. Inv /\ ParkInv => XipSafe
    BY DEF Inv, LockInv, ParkInv, XipSafe
  <1>2. ParkInv /\ Inv /\ [Next]_vars => ParkInv'
    BY ParkStep
  <1> QED BY <1>1, <1>2, InvInit, InvStep, ParkInit, PTL DEF Spec

\* FLT-LOG-11 and flash_slot.h: what runs whole has been carried out when it
\* ends, and an operation that returns 0 was, by its own last piece or by the
\* one that found it held, unless the chip holds one that was given up.
THEOREM DoneIsAlwaysDone == Spec => DoneIsDone
  <1>1. ChipInv => \A c \in Callers : at[c] = "WORK" => call[c].done
    BY DEF ChipInv
  <1>2. EndsDone = (\A c \in Callers : at[c] # "IDLE" /\ at'[c] = "IDLE" /\ call'[c].ret = "OK"
                                           => call'[c].done \/ held.of = Old)
    BY DEF EndsDone
  <1> QED BY <1>1, InvInit, InvStep, ChipInit, ChipStep, PTL DEF Spec, DoneIsDone, EndsDone

-----------------------------------------------------------------------------
(***************************************************************************)
(* PressureCollector, the interrupt machine that reads its sensor beside the  *)
(* flash operations: for every number of steps in a cycle, every length of    *)
(* queue and of a bus clear, and every turn of the counter.                   *)
(***************************************************************************)

Contents == [Slots -> [StepsOf -> Cycles \cup {Stale}]]

\* Slots are told apart by their distance from the head, at most a whole turn.
LEMMA SlotsApart ==
    ASSUME NEW h \in Slots, NEW i \in 0..Queue
    PROVE  /\ Wrapped(h + i) \in Slots
           /\ \A j \in 0..Queue : j # i => Wrapped(h + j) # Wrapped(h + i)
           /\ i + 1 \in 0..Queue => Wrapped(Wrapped(h + 1) + i) = Wrapped(h + (i + 1))
  BY CollectorConstants DEF Slots, Wrapped

LEMMA NextSlot == \A h \in Slots : Wrapped(h + 1) \in Slots
  BY CollectorConstants DEF Slots, Wrapped

LEMMA NextIsCycle == \A n \in Cycles : NextOf(n) \in Cycles
  BY CollectorConstants DEF NextOf, Cycles

\* Forgetting a slot leaves the others as they were.
LEMMA ForgetOnly ==
    ASSUME NEW q \in Contents, NEW s \in Slots
    PROVE  /\ Forget(q, s) \in Contents
           /\ \A t \in Slots : t # s => Forget(q, s)[t] = q[t]
  BY DEF Forget, Contents, Stale

-----------------------------------------------------------------------------
\* What the queue's invariant needs of the state's shape.
QueueShape ==
    /\ queue \in Contents /\ head \in Slots /\ count \in 0..Queue
    /\ cycles \in Cycles /\ oldest \in Cycles

\* A whole cycle pushed leaves the queue whole and in order, full or not.
LEMMA PushInOrder ==
    ASSUME QueueShape, QueueInOrder, NEW q \in Contents,
           q[Building] = Of(cycles),
           \A s \in Slots : s # Building => q[s] = queue[s],
           Push(q)
    PROVE  QueueShape' /\ QueueInOrder'
  <1> USE CollectorConstants
  <1>1. PICK f \in [0..Queue -> Cycles] : Run(f)
    BY DEF QueueInOrder
  <1>2. \A i \in 0..(count - 1) : q[Wrapped(head + i)] = Of(f[i])
    <2> SUFFICES ASSUME NEW i \in 0..(count - 1) PROVE q[Wrapped(head + i)] = Of(f[i])
      OBVIOUS
    <2>1. i \in 0..Queue /\ count \in 0..Queue /\ i # count
      BY DEF QueueShape
    <2>2. Wrapped(head + i) \in Slots /\ Wrapped(head + i) # Building
      BY <2>1, SlotsApart DEF QueueShape, Building
    <2> QED BY <1>1, <2>2 DEF Run
  <1>3. q[Wrapped(head + count)] = Of(f[count])
    BY <1>1 DEF Run, Building
  <1>4. \A i \in 0..count : q[Wrapped(head + i)] = Of(f[i])
    BY <1>2, <1>3 DEF QueueShape
  <1>5. cycles' = NextOf(f[count]) /\ cycles' \in Cycles /\ f[0] = oldest
    BY <1>1, NextIsCycle DEF Run, Push, QueueShape
  <1>6. CASE count = Queue
    <2>1. head' = Wrapped(head + 1) /\ count' = Queue /\ oldest' = NextOf(oldest)
      BY <1>6 DEF Push
    <2>2. head' \in Slots
      BY <2>1, NextSlot DEF QueueShape
    <2>3. Wrapped(head' + Queue) \in Slots /\ queue' = Forget(q, Wrapped(head' + Queue))
      BY <2>1, <2>2, SlotsApart DEF Push
    <2>4. QueueShape'
      BY <1>5, <2>1, <2>2, <2>3, ForgetOnly, NextIsCycle DEF QueueShape
    <2>0. [i \in 0..Queue |-> IF i = Queue THEN cycles' ELSE f[i + 1]] \in [0..Queue -> Cycles]
      BY <1>5
    <2>5. PICK g \in [0..Queue -> Cycles] :
             g = [i \in 0..Queue |-> IF i = Queue THEN cycles' ELSE f[i + 1]]
      BY <2>0
    <2>6. g[0] = oldest' /\ g[count'] = cycles'
      BY <1>1, <1>5, <1>6, <2>1, <2>5 DEF Run
    <2>7. ASSUME NEW i \in 0..(Queue - 1)
          PROVE  g[i + 1] = NextOf(g[i]) /\ queue'[Wrapped(head' + i)] = Of(g[i])
      <3>1. i \in 0..Queue /\ i + 1 \in 0..Queue /\ i # Queue
        OBVIOUS
      <3>2. g[i] = f[i + 1]
        BY <2>5, <3>1
      <3>3. g[i + 1] = NextOf(f[i + 1])
        <4>1. CASE i + 1 = Queue
          BY <4>1, <1>5, <1>6, <2>5, <3>1
        <4>2. CASE i + 1 # Queue
          <5>1. i + 1 \in 0..(count - 1) /\ i + 2 \in 0..Queue
            BY <4>2, <1>6, <3>1
          <5>2. f[i + 2] = NextOf(f[i + 1])
            BY <1>1, <5>1 DEF Run
          <5> QED BY <4>2, <5>2, <2>5, <3>1
        <4> QED BY <4>1, <4>2
      <3>4. Wrapped(head' + i) = Wrapped(head + (i + 1))
        BY <2>1, <3>1, SlotsApart DEF QueueShape
      <3>5. Wrapped(head' + i) \in Slots /\ Wrapped(head' + i) # Wrapped(head' + Queue)
        BY <2>2, <3>1, SlotsApart
      <3>6. queue'[Wrapped(head' + i)] = q[Wrapped(head' + i)]
        BY <2>3, <3>5, ForgetOnly
      <3>7. q[Wrapped(head + (i + 1))] = Of(f[i + 1])
        BY <1>4, <1>6, <3>1
      <3> QED BY <3>2, <3>3, <3>4, <3>6, <3>7
    <2>8. Run(g)'
      BY <2>1, <2>6, <2>7 DEF Run
    <2> QED BY <2>4, <2>5, <2>8 DEF QueueInOrder
  <1>7. CASE count # Queue
    <2>1. head' = head /\ count' = count + 1 /\ oldest' = oldest /\ count' \in 0..Queue
      BY <1>7 DEF Push, QueueShape
    <2>3. Wrapped(head' + count') \in Slots /\ queue' = Forget(q, Wrapped(head' + count'))
      BY <2>1, SlotsApart DEF Push, QueueShape
    <2>4. QueueShape'
      BY <1>5, <2>1, <2>3, ForgetOnly DEF QueueShape
    <2>0. [i \in 0..Queue |-> IF i = count + 1 THEN cycles' ELSE f[i]] \in [0..Queue -> Cycles]
      BY <1>5
    <2>5. PICK g \in [0..Queue -> Cycles] :
             g = [i \in 0..Queue |-> IF i = count + 1 THEN cycles' ELSE f[i]]
      BY <2>0
    <2>6. g[0] = oldest' /\ g[count'] = cycles'
      BY <1>5, <2>1, <2>5 DEF QueueShape
    <2>7. ASSUME NEW i \in 0..count
          PROVE  g[i + 1] = NextOf(g[i]) /\ queue'[Wrapped(head' + i)] = Of(g[i])
      <3>1. i \in 0..Queue /\ i + 1 \in 0..Queue /\ i # count'
        BY <2>1 DEF QueueShape
      <3>2. g[i] = f[i]
        BY <2>5, <3>1, <2>1
      <3>3. g[i + 1] = NextOf(f[i])
        <4>1. CASE i = count
          BY <4>1, <1>5, <2>5, <3>1
        <4>2. CASE i # count
          BY <4>2, <1>1, <2>5, <3>1 DEF Run, QueueShape
        <4> QED BY <4>1, <4>2
      <3>5. Wrapped(head' + i) \in Slots /\ Wrapped(head' + i) # Wrapped(head' + count')
        BY <2>1, <3>1, SlotsApart DEF QueueShape
      <3>6. queue'[Wrapped(head' + i)] = q[Wrapped(head' + i)]
        BY <2>3, <3>5, ForgetOnly
      <3> QED BY <1>4, <2>1, <3>2, <3>3, <3>6
    <2>8. Run(g)'
      <3>1. 0..(count' - 1) = 0..count
        BY <2>1 DEF QueueShape
      <3> QED BY <2>6, <2>7, <3>1 DEF Run
    <2> QED BY <2>4, <2>5, <2>8 DEF QueueInOrder
  <1> QED BY <1>6, <1>7


\* So does a cycle taken: the oldest goes, and its slot's bytes with it.
LEMMA TakeInOrder ==
    ASSUME QueueShape, QueueInOrder, count > 0,
           head' = Wrapped(head + 1), count' = count - 1,
           queue' = Forget(queue, head), oldest' = NextOf(oldest), cycles' = cycles
    PROVE  QueueShape' /\ QueueInOrder'
  <1> USE CollectorConstants
  <1>1. PICK f \in [0..Queue -> Cycles] : Run(f)
    BY DEF QueueInOrder
  <1>2. QueueShape'
    BY NextSlot, NextIsCycle, ForgetOnly DEF QueueShape
  <1>3. [i \in 0..Queue |-> IF i = Queue THEN cycles ELSE f[i + 1]] \in [0..Queue -> Cycles]
    BY DEF QueueShape
  <1>4. PICK g \in [0..Queue -> Cycles] :
           g = [i \in 0..Queue |-> IF i = Queue THEN cycles ELSE f[i + 1]]
    BY <1>3
  <1>5. count \in 0..Queue /\ count - 1 \in 0..Queue /\ 0 \in 0..(count - 1) /\ count - 1 # Queue
    BY DEF QueueShape
  <1>6. g[0] = oldest' /\ g[count'] = cycles'
    BY <1>1, <1>4, <1>5 DEF Run
  <1>7. ASSUME NEW i \in 0..(count - 2)
        PROVE  g[i + 1] = NextOf(g[i]) /\ queue'[Wrapped(head' + i)] = Of(g[i])
    <2>1. i \in 0..Queue /\ i + 1 \in 0..Queue /\ i + 1 \in 0..(count - 1) /\ i + 1 # Queue /\ i # Queue
      BY <1>5
    <2>2. g[i] = f[i + 1] /\ g[i + 1] = f[i + 2]
      BY <1>4, <2>1
    <2>3. f[i + 2] = NextOf(f[i + 1]) /\ queue[Wrapped(head + (i + 1))] = Of(f[i + 1])
      BY <1>1, <2>1 DEF Run
    <2>4. Wrapped(head' + i) = Wrapped(head + (i + 1))
      BY <2>1, SlotsApart DEF QueueShape
    <2>5. 0 \in 0..Queue /\ Wrapped(head + 0) = head
      BY DEF QueueShape, Slots, Wrapped
    <2>6. Wrapped(head + (i + 1)) \in Slots /\ Wrapped(head + (i + 1)) # head
      BY <2>1, <2>5, SlotsApart DEF QueueShape
    <2>7. queue'[Wrapped(head + (i + 1))] = queue[Wrapped(head + (i + 1))]
      BY <2>6, ForgetOnly DEF QueueShape
    <2> QED BY <2>2, <2>3, <2>4, <2>7
  <1>8. Run(g)'
    <2>1. count' - 1 = count - 2
      BY <1>5
    <2> QED BY <1>6, <1>7, <2>1 DEF Run
  <1> QED BY <1>2, <1>4, <1>8 DEF QueueInOrder

\* And bytes put into the slot being built, or forgotten there.
LEMMA BuildingInOrder ==
    ASSUME QueueShape, QueueInOrder, queue' \in Contents,
           \A s \in Slots : s # Building => queue'[s] = queue[s],
           UNCHANGED <<head, count, cycles, oldest>>
    PROVE  QueueShape' /\ QueueInOrder'
  <1> USE CollectorConstants
  <1>1. PICK f \in [0..Queue -> Cycles] : Run(f)
    BY DEF QueueInOrder
  <1>2. ASSUME NEW i \in 0..(count - 1) PROVE queue'[Wrapped(head + i)] = queue[Wrapped(head + i)]
    <2>1. i \in 0..Queue /\ count \in 0..Queue /\ i # count
      BY DEF QueueShape
    <2> QED BY <2>1, SlotsApart DEF QueueShape, Building
  <1>3. Run(f)'
    BY <1>1, <1>2 DEF Run
  <1> QED BY <1>3 DEF QueueShape, QueueInOrder

-----------------------------------------------------------------------------
\* The cycle being built holds the bytes of the steps it has behind it.
Built == \A k \in StepsOf : k < step => queue[Building][k] = cycles

\* The interrupt is held off from the hold-off to the return, and what was
\* copied stays the oldest meanwhile.
TakeInv ==
    /\ taking # "NO" => ~let_in /\ state # "IDLE"
    /\ taking = "COPIED" => count > 0 /\ out = Of(oldest)

Bounded ==
    /\ state = "CLEARING" => clear_edge <= ClearEdges + 2
    /\ flashing => flash_op_seq < MaxFlashes

CollectorInv == CollectorTypeOK /\ QueueInOrder /\ Built /\ TakeInv /\ Bounded

LEMMA InvShape ==
    ASSUME CollectorInv
    PROVE  QueueShape /\ Building \in Slots /\ QueueInOrder
  <1>1. QueueShape /\ QueueInOrder
    BY DEF CollectorInv, CollectorTypeOK, QueueShape, Contents
  <1> QED BY <1>1, SlotsApart DEF QueueShape, Building

\* Steps that leave the queue and the machine's place in its cycle alone.
LEMMA Apart ==
    ASSUME CollectorInv, UNCHANGED <<queue, head, count, cycles, oldest>>
    PROVE  QueueInOrder' /\ Building' = Building /\ (step' \in {0, step} => Built')
  <1>1. QueueInOrder' /\ Building' = Building
    BY InvShape DEF QueueInOrder, Run, Building
  <1>2. ASSUME step' \in {0, step} PROVE Built'
    BY <1>1, <1>2 DEF Built, CollectorInv, StepsOf
  <1> QED BY <1>1, <1>2

LEMMA OutsideKeeps ==
    ASSUME CollectorInv, Begin \/ Outside \/ HoldOff \/ CopyOldest
    PROVE  CollectorInv'
  <1> USE CollectorConstants DEF machine, queued, bus, task, flash, world
  <1>1. UNCHANGED <<queue, head, count, cycles, oldest>> /\ step' \in {0, step}
    BY DEF Begin, Outside, HoldOff, CopyOldest, AlarmDue, ConversionEnds, TroubleComes,
           TroubleEnds, FlashBegins, FlashEnds
  <1>2. QueueInOrder' /\ Built'
    BY <1>1, Apart
  <1>3. CASE Begin
    BY <1>2, <1>3 DEF Begin, CollectorInv, CollectorTypeOK, TakeInv, Bounded, States, StepsOf, Of
  <1>4. CASE HoldOff
    <2>0. CollectorTypeOK /\ taking' \in {"NO", "HELD", "COPIED"} /\ let_in' \in BOOLEAN
      BY <1>4 DEF HoldOff, CollectorInv
    <2>1. CollectorTypeOK'
      <3>1. UNCHANGED <<state, step, clear_edge, failures_in_a_row, flash_ops, queue, flashed, head,
                        count, cycles, transfer, lines, scl, sda, alarm, flash_op_seq, flashing,
                        out, part, trouble, calm, clocks, stopped, beside, oldest>>
        BY <1>4 DEF HoldOff
      <3> HIDE <1>4 DEF machine, queued, bus, task, flash, world
      <3> QED BY <2>0, <3>1 DEF CollectorTypeOK
    <2>2. TakeInv' /\ Bounded'
      BY <1>4 DEF HoldOff, CollectorInv, TakeInv, Bounded
    <2> QED BY <1>2, <2>1, <2>2 DEF CollectorInv
  <1>5. CASE CopyOldest
    <2>1. PICK f \in [0..Queue -> Cycles] : Run(f)
      BY DEF CollectorInv, QueueInOrder
    <2>2. 0 \in 0..(count - 1) /\ Wrapped(head + 0) = head
      BY <1>5 DEF CopyOldest, CollectorInv, CollectorTypeOK, Slots, Wrapped
    <2>3. out' = Of(oldest)
      BY <1>5, <2>1, <2>2 DEF CopyOldest, Run
    <2> QED BY <1>2, <1>5, <2>3 DEF CopyOldest, CollectorInv, CollectorTypeOK, TakeInv, Bounded, Of
  <1>6. CASE Outside
    <2>0. CollectorTypeOK /\ Bounded
      BY DEF CollectorInv
    <2>1. CollectorTypeOK'
      <3>1. CASE AlarmDue
        BY <2>0, <3>1 DEF AlarmDue, CollectorTypeOK
      <3>5. CASE ConversionEnds
        BY <2>0, <3>5 DEF ConversionEnds, CollectorTypeOK
      <3>6. CASE TroubleEnds
        BY <2>0, <3>6 DEF TroubleEnds, CollectorTypeOK
      <3>2. CASE TroubleComes
        BY <2>0, <3>2 DEF TroubleComes, CollectorTypeOK, AnyTrouble
      <3>3. CASE FlashBegins
        BY <2>0, <3>3 DEF FlashBegins, CollectorTypeOK
      <3>4. CASE FlashEnds
        <4>1. flash_op_seq' \in 0..MaxFlashes /\ flash_ops' \in 0..flash_op_seq'
          BY <2>0, <3>4 DEF FlashEnds, CollectorTypeOK, Bounded
        <4>2. flashing' \in BOOLEAN
          BY <3>4 DEF FlashEnds
        <4>3. UNCHANGED <<state, step, clear_edge, failures_in_a_row, queue, flashed, head, count,
                          cycles, transfer, lines, scl, sda, alarm, let_in, taking, out, part,
                          trouble, calm, clocks, stopped, beside, oldest>>
          BY <3>4 DEF FlashEnds
        <4> HIDE <3>4 DEF machine, queued, bus, task, flash, world
        <4> QED BY <2>0, <4>1, <4>2, <4>3 DEF CollectorTypeOK
      <3> QED BY <1>6, <3>1, <3>2, <3>3, <3>4, <3>5, <3>6 DEF Outside
    <2>2. TakeInv' /\ Bounded'
      BY <1>6 DEF Outside, AlarmDue, ConversionEnds, TroubleComes, TroubleEnds, FlashBegins,
                  FlashEnds, CollectorInv, CollectorTypeOK, TakeInv, Bounded, Of
    <2> QED BY <1>2, <2>1, <2>2 DEF CollectorInv
  <1> QED BY <1>3, <1>4, <1>5, <1>6

LEMMA LetInKeeps ==
    ASSUME CollectorInv, LetIn
    PROVE  CollectorInv'
  <1> USE CollectorConstants DEF machine, queued, bus, task, flash, world
  <1>1. CASE taking = "HELD" /\ count = 0
    <2>1. UNCHANGED <<queue, head, count, cycles, oldest, step>>
      BY <1>1 DEF LetIn
    <2>2. QueueInOrder' /\ Built'
      BY <2>1, Apart
    <2> QED BY <1>1, <2>2 DEF LetIn, CollectorInv, CollectorTypeOK, TakeInv, Bounded, Stale
  <1>2. CASE taking = "COPIED"
    <2>1. count > 0 /\ head' = Wrapped(head + 1) /\ count' = count - 1
          /\ queue' = Forget(queue, head) /\ oldest' = NextOf(oldest) /\ cycles' = cycles /\ step' = step
      BY <1>2 DEF LetIn, CollectorInv, TakeInv
    <2>2. QueueShape' /\ QueueInOrder'
      BY <2>1, InvShape, TakeInOrder
    <2>3. Building' = Building /\ Building # head
      BY <2>1, InvShape DEF QueueShape, Building, Wrapped, Slots
    <2>4. queue'[Building] = queue[Building]
      BY <2>1, <2>3, InvShape, ForgetOnly DEF QueueShape
    <2>5. Built'
      BY <2>1, <2>3, <2>4 DEF Built, CollectorInv
    <2>6. CollectorTypeOK'
      BY <1>2, <2>2 DEF LetIn, CollectorInv, CollectorTypeOK, QueueShape, Contents, Stale
    <2> QED BY <1>2, <2>2, <2>5, <2>6 DEF LetIn, CollectorInv, TakeInv, Bounded
  <1> QED BY <1>1, <1>2 DEF LetIn

-----------------------------------------------------------------------------
\* What the ways a transfer may end allow.
LEMMA EndsTyped == \A s : Ends(s) \subseteq {"OK", "FAILED"}
  BY DEF Ends

LEMMA CommandTyped ==
    ASSUME CollectorTypeOK, NEW k, Command(k)
    PROVE  /\ state' = "COMMANDED" /\ step' = k
           /\ transfer' \in {"NONE", "OK", "FAILED"} /\ part' \in {"IDLE", "CONVERTING", "CONVERTED"}
           /\ flash_ops' = flash_op_seq /\ beside' \in BOOLEAN
           /\ alarm' \in {"OFF", "CONVERTED", "SOON", "UP"}
  BY EndsTyped DEF Command, PartDoes, AlarmAtEndOfConversion, CollectorTypeOK

\* A failure gives the cycle up, and keeps all else.
LEMMA FailedKeeps ==
    ASSUME CollectorInv, Handler, Failed, UNCHANGED <<let_in, flash, task>>
    PROVE  CollectorInv'
  <1> USE CollectorConstants DEF flash, task
  <1>1. Building \in Slots /\ QueueShape /\ QueueInOrder
    BY InvShape
  <1>2. queue' = Forget(queue, Building) /\ step' = 0 /\ UNCHANGED <<head, count, cycles, oldest>>
    BY DEF Failed, FailedAt
  <1>3. queue' \in Contents /\ \A s \in Slots : s # Building => queue'[s] = queue[s]
    BY <1>1, <1>2, ForgetOnly DEF QueueShape
  <1>4. QueueShape' /\ QueueInOrder'
    BY <1>1, <1>2, <1>3, BuildingInOrder
  <1>5. Built'
    BY <1>2 DEF Built, StepsOf
  <1>6. CollectorTypeOK'
    <2>1. failures_in_a_row' \in 0..(Failures - 1) /\ clear_edge' \in 0..(ClearEdges + 3)
          /\ state' \in States
      BY DEF Failed, FailedAt, BeginClear, CollectorInv, CollectorTypeOK, States
    <2>2. /\ transfer' \in {"NONE", "OK", "FAILED"} /\ lines' \in {"I2C", "MACHINE"}
          /\ scl' \in BOOLEAN /\ sda' \in BOOLEAN /\ alarm' \in {"OFF", "CONVERTED", "SOON", "UP"}
          /\ trouble' \subseteq AnyTrouble /\ clocks' \in 0..TargetClocks /\ stopped' \in BOOLEAN
      <3>1. CollectorTypeOK
        BY DEF CollectorInv
      <3>2. CASE failures_in_a_row + 1 < Failures
        <4>1. transfer' = "NONE" /\ AlarmSoon
              /\ UNCHANGED <<lines, scl, sda, clocks, stopped, trouble>>
          BY <3>2 DEF Failed, FailedAt
        <4> QED BY <3>1, <4>1 DEF AlarmSoon, CollectorTypeOK
      <3>3. CASE ~(failures_in_a_row + 1 < Failures)
        <4>1. BeginClear
          BY <3>3 DEF Failed, FailedAt
        <4>2. transfer' = "NONE" /\ lines' = "MACHINE" /\ scl' = TRUE /\ sda' = TRUE
              /\ clocks' = 0 /\ stopped' = FALSE
          BY <4>1 DEF BeginClear
        <4>3. trouble' \subseteq AnyTrouble /\ alarm' \in {"SOON", "UP"}
          BY <3>1, <4>1 DEF BeginClear, AlarmSoon, CollectorTypeOK
        <4>4. scl' \in BOOLEAN /\ sda' \in BOOLEAN /\ stopped' \in BOOLEAN
          BY <4>1, Zenon DEF BeginClear
        <4>5. clocks' \in 0..TargetClocks
          BY <4>2
        <4> QED BY <4>2, <4>3, <4>4, <4>5
      <3> QED BY <3>2, <3>3
    <2>3. UNCHANGED <<flash_ops, flashed, flash_op_seq, flashing, taking, out, let_in, part, calm, beside>>
      BY DEF Failed, FailedAt
    <2>4. step' \in StepsOf
      BY <1>2 DEF StepsOf
    <2> QED BY <1>4, <2>1, <2>2, <2>3, <2>4 DEF CollectorInv, CollectorTypeOK, QueueShape, Contents
  <1>7. TakeInv' /\ Bounded'
    <2>1. taking' = "NO"
      BY DEF Handler, CollectorInv, CollectorTypeOK, TakeInv
    <2>2. state' = "CLEARING" => clear_edge' = 0
      BY DEF Failed, FailedAt, BeginClear
    <2> QED BY <2>1, <2>2 DEF CollectorInv, TakeInv, Bounded
  <1> QED BY <1>4, <1>5, <1>6, <1>7 DEF CollectorInv

\* A handler that leaves the queue alone: what it changes is the machine's.
LEMMA AfterCommandKeeps ==
    ASSUME CollectorInv, AfterCommand
    PROVE  CollectorInv'
  <1> USE CollectorConstants DEF flash, task
  <1>0. Handler /\ taking = "NO"
    BY DEF AfterCommand, Handler, CollectorInv, CollectorTypeOK, TakeInv
  <1>1. CASE transfer = "OK"
    <2>1. UNCHANGED <<queue, head, count, cycles, oldest, step>>
      BY <1>1 DEF AfterCommand
    <2>2. QueueInOrder' /\ Built'
      BY <2>1, Apart
    <2>3. transfer' \in {"NONE", "OK", "FAILED"} /\ part' \in {"IDLE", "CONVERTING", "CONVERTED"}
          /\ alarm' \in {"OFF", "CONVERTED", "SOON", "UP"} /\ state' = "READING" /\ flashed' \in BOOLEAN
      BY <1>1, EndsTyped DEF AfterCommand, PartDoes, AlarmSoon, CollectorInv, CollectorTypeOK
    <2>4. UNCHANGED <<step, clear_edge, failures_in_a_row, flash_ops, queue, head, count, cycles,
                      lines, scl, sda, clocks, stopped, trouble, calm, beside, oldest, let_in,
                      flash_op_seq, flashing, taking, out>>
      BY <1>1 DEF AfterCommand
    <2>5. CollectorTypeOK'
      BY <2>3, <2>4 DEF CollectorInv, CollectorTypeOK, States
    <2> QED BY <1>0, <2>2, <2>3, <2>4, <2>5 DEF CollectorInv, TakeInv, Bounded
  <1>2. CASE transfer # "OK"
    BY <1>0, <1>2, FailedKeeps DEF AfterCommand
  <1> QED BY <1>1, <1>2

LEMMA CommandAgainKeeps ==
    ASSUME CollectorInv, CommandAgain
    PROVE  CollectorInv'
  <1> USE CollectorConstants DEF flash, task, queued
  <1>0. taking = "NO" /\ Command(step) /\ CollectorTypeOK
    BY DEF CommandAgain, Handler, CollectorInv, CollectorTypeOK, TakeInv
  <1>1. UNCHANGED <<queue, head, count, cycles, oldest>> /\ step' = step
    BY <1>0, CommandTyped DEF CommandAgain
  <1>2. QueueInOrder' /\ Built'
    BY <1>1, Apart
  <1>3. CollectorTypeOK'
    BY <1>0, <1>1, CommandTyped DEF CommandAgain, CollectorTypeOK, States
  <1>4. UNCHANGED <<taking, out, flash_op_seq, flashing>> /\ state' = "COMMANDED"
    BY <1>0, CommandTyped DEF CommandAgain
  <1> QED BY <1>0, <1>2, <1>3, <1>4 DEF CollectorInv, TakeInv, Bounded

LEMMA ClearStepKeeps ==
    ASSUME CollectorInv, ClearStep
    PROVE  CollectorInv'
  <1> USE CollectorConstants DEF flash, task, queued
  <1>0. taking = "NO" /\ CollectorTypeOK /\ clear_edge' = clear_edge + 1 /\ clear_edge <= ClearEdges + 2
    BY DEF ClearStep, Handler, CollectorInv, CollectorTypeOK, TakeInv, Bounded
  <1>1. UNCHANGED <<queue, head, count, cycles, oldest, step>>
    BY DEF ClearStep
  <1>2. QueueInOrder' /\ Built'
    BY <1>1, Apart
  <1>3. UNCHANGED <<step, failures_in_a_row, flash_ops, queue, flashed, head, count, cycles, let_in,
                    flash_op_seq, flashing, taking, out, calm, beside, oldest>>
    BY DEF ClearStep
  <1>4. alarm' \in {"OFF", "CONVERTED", "SOON", "UP"} /\ clear_edge' \in 0..(ClearEdges + 3)
    BY <1>0 DEF ClearStep, AlarmSoon, CollectorTypeOK
  <1>5. CASE ~ClearDone
    <2>1. UNCHANGED <<state, transfer, lines, part>> /\ \E clock, data \in BOOLEAN : Edge(clock, data)
      <3>1. (clear_edge % 2 = 1) \in BOOLEAN /\ scl \in BOOLEAN /\ sda \in BOOLEAN
        BY <1>0 DEF CollectorTypeOK
      <3>2. Edge(clear_edge % 2 = 1, sda) \/ Edge(scl, FALSE) \/ Edge(scl, TRUE)
        BY <1>5, Zenon DEF ClearStep
      <3>3. UNCHANGED <<state, transfer, lines, part>>
        BY <1>5 DEF ClearStep
      <3>4. TRUE \in BOOLEAN /\ FALSE \in BOOLEAN
        OBVIOUS
      <3> QED BY <3>1, <3>2, <3>3, <3>4, Zenon
    <2>2. PICK clock, data \in BOOLEAN : Edge(clock, data)
      BY <2>1
    <2>3. /\ scl' \in BOOLEAN /\ sda' \in BOOLEAN
          /\ stopped' = (stopped \/ (scl /\ clock /\ ~sda /\ data))
      BY <2>2 DEF Edge
    <2>4. trouble' \subseteq AnyTrouble /\ clocks' \in 0..TargetClocks
      BY <1>0, <2>2 DEF Edge, CollectorTypeOK
    <2>5. stopped' \in BOOLEAN
      BY <2>3
    <2>6. CollectorTypeOK'
      BY <1>0, <1>3, <1>4, <2>1, <2>3, <2>4, <2>5 DEF CollectorTypeOK
    <2>7. clear_edge' <= ClearEdges + 2
      BY <1>0, <1>5 DEF ClearDone, CollectorTypeOK
    <2> QED BY <1>0, <1>2, <1>3, <2>6, <2>7 DEF CollectorInv, TakeInv, Bounded
  <1>6. CASE ClearDone
    <2>1. state' = "RESETTING" /\ lines' = "I2C" /\ UNCHANGED <<scl, sda, clocks, stopped>>
      BY <1>6 DEF ClearStep
    <2>2. transfer' \in {"NONE", "OK", "FAILED"} /\ part' \in {"IDLE", "CONVERTING", "CONVERTED"}
      BY <1>0, <1>6, EndsTyped DEF ClearStep, PartDoes, CollectorTypeOK
    <2>3. trouble' \subseteq AnyTrouble
      BY <1>0, <1>6 DEF ClearStep, CollectorTypeOK
    <2>4. CollectorTypeOK'
      BY <1>0, <1>3, <1>4, <2>1, <2>2, <2>3 DEF CollectorTypeOK, States
    <2> QED BY <1>0, <1>2, <1>3, <2>1, <2>4 DEF CollectorInv, TakeInv, Bounded
  <1> QED BY <1>5, <1>6

LEMMA AfterResetKeeps ==
    ASSUME CollectorInv, AfterReset
    PROVE  CollectorInv'
  <1> USE CollectorConstants DEF flash, task, queued, world
  <1>0. Handler /\ taking = "NO" /\ CollectorTypeOK
    BY DEF AfterReset, Handler, CollectorInv, CollectorTypeOK, TakeInv
  <1>1. CASE transfer = "OK"
    <2>1. UNCHANGED <<step, clear_edge, failures_in_a_row, flash_ops, queue, flashed, head, count,
                      cycles, lines, scl, sda, clocks, stopped, part, trouble, calm, beside, oldest,
                      let_in, flash_op_seq, flashing, taking, out>>
      BY <1>1 DEF AfterReset
    <2>2. state' = "RELOADING" /\ transfer' = "NONE" /\ alarm' \in {"SOON", "UP"}
      BY <1>1 DEF AfterReset, AlarmSoon
    <2>3. QueueInOrder' /\ Built'
      BY <2>1, Apart
    <2>4. CollectorTypeOK'
      BY <1>0, <2>1, <2>2 DEF CollectorTypeOK, States
    <2> QED BY <1>0, <2>1, <2>2, <2>3, <2>4 DEF CollectorInv, TakeInv, Bounded
  <1>2. CASE transfer # "OK"
    BY <1>0, <1>2, FailedKeeps DEF AfterReset
  <1> QED BY <1>1, <1>2

\* A read ended well puts its step's bytes in, and the last one pushes.
LEMMA AfterReadKeeps ==
    ASSUME CollectorInv, AfterRead
    PROVE  CollectorInv'
  <1> USE CollectorConstants DEF flash, task
  <1>0. Handler /\ taking = "NO" /\ CollectorTypeOK /\ QueueShape /\ QueueInOrder /\ Building \in Slots
    BY InvShape DEF AfterRead, Handler, CollectorInv, CollectorTypeOK, TakeInv
  <1>1. CASE transfer # "OK"
    BY <1>0, <1>1, FailedKeeps DEF AfterRead
  <1>2. CASE transfer = "OK"
    <2>1. PICK q : q = [queue EXCEPT ![Building][step] = cycles]
      OBVIOUS
    <2>2. /\ q \in Contents
          /\ \A s \in Slots : s # Building => q[s] = queue[s]
          /\ q[Building] = [queue[Building] EXCEPT ![step] = cycles]
      <3>1. queue \in [Slots -> [StepsOf -> Cycles \cup {Stale}]] /\ step \in StepsOf /\ cycles \in Cycles
        BY <1>0 DEF CollectorTypeOK
      <3>2. [queue[Building] EXCEPT ![step] = cycles] \in [StepsOf -> Cycles \cup {Stale}]
        BY <1>0, <3>1
      <3> QED BY <1>0, <2>1, <3>1, <3>2 DEF Contents
    <2>3. \A k \in StepsOf : k <= step => q[Building][k] = cycles
      BY <1>0, <2>2 DEF CollectorInv, Built, QueueShape, Contents, CollectorTypeOK, StepsOf
    <2>4. UNCHANGED <<clear_edge, flashed, lines, scl, sda, clocks, stopped, trouble, calm, let_in,
                      flash_op_seq, flashing, taking, out>>
          /\ failures_in_a_row' = 0
      BY <1>2 DEF AfterRead
    <2>5. ASSUME NEW k \in StepsOf, Command(k), QueueShape', QueueInOrder', Built'
          PROVE  CollectorInv'
      <3>1. CollectorTypeOK'
        BY <1>0, <2>4, <2>5, CommandTyped DEF CollectorTypeOK, States, QueueShape, Contents
      <3>2. state' = "COMMANDED"
        BY <1>0, <2>5, CommandTyped
      <3> QED BY <1>0, <2>4, <2>5, <3>1, <3>2 DEF CollectorInv, TakeInv, Bounded
    <2>6. CASE step + 1 = Steps
      <3>1. Push(q) /\ Command(0)
        BY <1>2, <2>1, <2>6 DEF AfterRead
      <3>2. q[Building] = Of(cycles)
        <4>1. \A k \in StepsOf : k <= step
          BY <1>0, <2>6 DEF CollectorTypeOK, StepsOf
        <4>2. q[Building] \in [StepsOf -> Cycles \cup {Stale}]
          BY <1>0, <2>2 DEF Contents
        <4> QED BY <2>3, <4>1, <4>2 DEF Of
      <3>3. QueueShape' /\ QueueInOrder'
        BY <1>0, <2>2, <3>1, <3>2, PushInOrder
      <3>4. step' = 0 /\ 0 \in StepsOf
        BY <1>0, <3>1, CommandTyped DEF StepsOf
      <3>5. Built'
        BY <3>4 DEF Built, StepsOf
      <3> QED BY <2>5, <3>1, <3>3, <3>4, <3>5
    <2>7. CASE step + 1 # Steps
      <3>1. queue' = q /\ Command(step + 1) /\ UNCHANGED <<head, count, cycles, oldest>>
        BY <1>2, <2>1, <2>7 DEF AfterRead
      <3>2. QueueShape' /\ QueueInOrder'
        BY <1>0, <2>2, <3>1, BuildingInOrder
      <3>3. step + 1 \in StepsOf /\ step' = step + 1
        BY <1>0, <2>7, <3>1, CommandTyped DEF CollectorTypeOK, StepsOf
      <3>4. Built'
        BY <1>0, <2>3, <3>1, <3>3 DEF Built, Building, StepsOf, CollectorTypeOK
      <3> QED BY <2>5, <3>1, <3>2, <3>3, <3>4
    <2> QED BY <2>6, <2>7
  <1> QED BY <1>1, <1>2

-----------------------------------------------------------------------------
LEMMA CollectorInvInit == CollectorInit => CollectorInv
  <1> SUFFICES ASSUME CollectorInit PROVE CollectorInv
    OBVIOUS
  <1> USE CollectorConstants DEF CollectorInit
  <1>1. CollectorTypeOK
    <2>1. queue \in [Slots -> [StepsOf -> Cycles \cup {Stale}]] /\ out \in [StepsOf -> Cycles \cup {Stale}]
      OBVIOUS
    <2>2. /\ step \in StepsOf /\ clear_edge \in 0..(ClearEdges + 3) /\ failures_in_a_row \in 0..(Failures - 1)
          /\ flash_ops \in 0..flash_op_seq /\ head \in Slots /\ count \in 0..Queue /\ cycles \in Cycles
          /\ flash_op_seq \in 0..MaxFlashes /\ clocks \in 0..TargetClocks /\ oldest \in Cycles
      BY DEF StepsOf, Slots, Cycles
    <2>3. /\ flashed \in BOOLEAN /\ scl \in BOOLEAN /\ sda \in BOOLEAN /\ let_in \in BOOLEAN
          /\ calm \in BOOLEAN /\ stopped \in BOOLEAN /\ beside \in BOOLEAN
      BY Zenon
    <2> QED BY <2>1, <2>2, <2>3 DEF CollectorTypeOK, States, AnyTrouble
  <1>2. [i \in 0..Queue |-> 0] \in [0..Queue -> Cycles]
    BY DEF Cycles
  <1>3. Run([i \in 0..Queue |-> 0])
    BY DEF Run
  <1>4. QueueInOrder
    BY <1>2, <1>3 DEF QueueInOrder
  <1>5. Built /\ TakeInv /\ Bounded
    BY DEF Built, TakeInv, Bounded, StepsOf
  <1> QED BY <1>1, <1>4, <1>5 DEF CollectorInv

LEMMA CollectorInvStep == CollectorInv /\ [CollectorNext]_collectorVars => CollectorInv'
  <1> SUFFICES ASSUME CollectorInv, [CollectorNext]_collectorVars PROVE CollectorInv'
    OBVIOUS
  <1>1. CASE CollectorNext
    BY <1>1, OutsideKeeps, LetInKeeps, AfterCommandKeeps, AfterReadKeeps, CommandAgainKeeps,
       ClearStepKeeps, AfterResetKeeps DEF CollectorNext, Interrupt, Task
  <1>2. CASE UNCHANGED collectorVars
    <2>1. UNCHANGED <<state, step, clear_edge, failures_in_a_row, flash_ops, queue, flashed, head,
                      count, cycles, transfer, lines, scl, sda, alarm, let_in, flash_op_seq, flashing,
                      taking, out, part, trouble, calm, clocks, stopped, beside, oldest>>
      BY <1>2 DEF collectorVars, machine, queued, bus, flash, task, world
    <2>2. QueueInOrder' /\ Built'
      BY <2>1, Apart
    <2> QED BY <2>1, <2>2 DEF CollectorInv, CollectorTypeOK, TakeInv, Bounded, Of
  <1> QED BY <1>1, <1>2

-----------------------------------------------------------------------------
(* The bus clear, the part, and the mark of a flash operation.               *)

\* The clocks that the first e edges of a clear have given, as many as count.
ClocksAt(e) == IF e \div 2 < TargetClocks THEN e \div 2 ELSE TargetClocks

\* A clear after its first clear_edge edges: clocks, then the data line down and up.
Clearing ==
    /\ clear_edge <= ClearEdges + 2
    /\ clear_edge <= ClearEdges => /\ clocks = ClocksAt(clear_edge) /\ sda = TRUE
                                   /\ scl = TRUE <=> clear_edge % 2 = 0
    /\ clear_edge > ClearEdges => clocks = TargetClocks /\ scl = TRUE
    /\ clear_edge = ClearEdges + 1 => sda = FALSE
    /\ clear_edge = ClearEdges + 2 => sda = TRUE /\ stopped = TRUE

BusInv ==
    /\ lines = "MACHINE" <=> state = "CLEARING"
    /\ transfer # "NONE" => state \in {"COMMANDED", "READING", "RESETTING"}
    /\ state = "CLEARING" => Clearing
    /\ state # "CLEARING" => scl = TRUE /\ sda = TRUE
    /\ state = "RESETTING" => clocks = TargetClocks /\ stopped = TRUE

\* A conversion runs only until its alarm, and a command the part had began one,
\* unless the part has lost itself since.
PartInv ==
    /\ part = "CONVERTING" => state = "COMMANDED" /\ alarm # "UP"
    /\ state = "COMMANDED" => alarm \in {"CONVERTED", "UP"}
    /\ state = "COMMANDED" /\ transfer = "OK" => "LOST" \in trouble \/ part # "IDLE"

MarkInv ==
    /\ flash_op_seq # flash_ops => beside = TRUE
    /\ beside = TRUE => flashing = TRUE \/ flash_op_seq # flash_ops
    /\ flashing = TRUE => beside = TRUE

UseInv == BusInv /\ PartInv /\ MarkInv

\* What a step does with the part: see ReadOnce.
UsesWell ==
    /\ state' = "READING" /\ state # "READING" =>
          /\ transfer' = "OK" => part = "CONVERTED"
          /\ flashed' => beside
          /\ beside /\ ~flashing => flashed'
    /\ state' = "COMMANDED" /\ state # "COMMANDED" => part # "CONVERTING"

\* Steps of others' than the machine.
LEMMA OthersUse ==
    ASSUME CollectorInv, UseInv, Begin \/ Task \/ Outside \/ UNCHANGED collectorVars
    PROVE  UseInv' /\ UsesWell
  <1> USE DEF machine, queued, bus, task, flash, world
  <1>1. CollectorTypeOK
    BY DEF CollectorInv
  <1>2. CASE Begin
    <2>1. /\ state = "IDLE" /\ state' = "RETRYING"
          /\ UNCHANGED <<flash_ops, transfer, lines, scl, sda, flash_op_seq, flashing, part, trouble, beside>>
      BY <1>2 DEF Begin
    <2> QED BY <2>1 DEF UseInv, BusInv, PartInv, MarkInv, UsesWell
  <1>3. CASE Task \/ AlarmDue \/ ConversionEnds \/ TroubleComes \/ TroubleEnds \/ UNCHANGED collectorVars
    <2>1. UNCHANGED <<state, clear_edge, flash_ops, transfer, lines, scl, sda, clocks, stopped,
                      flash_op_seq, flashing, beside>>
      BY <1>3 DEF Task, HoldOff, CopyOldest, LetIn, AlarmDue, ConversionEnds, TroubleComes, TroubleEnds, collectorVars
    <2>2. BusInv' /\ MarkInv' /\ UsesWell
      BY <2>1 DEF UseInv, BusInv, Clearing, ClocksAt, MarkInv, UsesWell
    <2>3. PartInv'
      <3>1. CASE Task \/ TroubleEnds \/ UNCHANGED collectorVars
        BY <3>1 DEF Task, HoldOff, CopyOldest, LetIn, TroubleEnds, collectorVars, UseInv, PartInv
      <3>2. CASE AlarmDue
        <4>1. alarm' = "UP" /\ UNCHANGED <<state, transfer, part, trouble>> /\ part # "CONVERTING"
          BY <3>2 DEF AlarmDue, UseInv, PartInv
        <4> QED BY <4>1 DEF UseInv, PartInv
      <3>3. CASE ConversionEnds
        BY <3>3 DEF ConversionEnds, UseInv, PartInv
      <3>4. CASE TroubleComes
        <4>1. PICK t \in AnyTrouble : trouble' = {t} /\ part' = IF t = "LOST" THEN "IDLE" ELSE part
          BY <3>4 DEF TroubleComes
        <4>2. UNCHANGED <<state, transfer, alarm>> /\ trouble = {}
          BY <3>4 DEF TroubleComes
        <4> QED BY <4>1, <4>2 DEF UseInv, PartInv
      <3> QED BY <1>3, <3>1, <3>2, <3>3, <3>4
    <2> QED BY <2>2, <2>3 DEF UseInv
  <1>4. CASE FlashBegins \/ FlashEnds
    <2>1. UNCHANGED <<state, clear_edge, flash_ops, transfer, lines, scl, sda, clocks, stopped,
                      alarm, part, trouble>>
      BY <1>4 DEF FlashBegins, FlashEnds
    <2>2. BusInv' /\ PartInv' /\ UsesWell
      BY <2>1 DEF UseInv, BusInv, Clearing, ClocksAt, PartInv, UsesWell
    <2>3. CASE FlashBegins
      BY <2>1, <2>2, <2>3 DEF FlashBegins, UseInv, MarkInv
    <2>4. CASE FlashEnds
      <3>1. flash_op_seq \in Nat /\ flash_ops \in Nat /\ flash_ops <= flash_op_seq
        BY <1>1, CollectorConstants DEF CollectorTypeOK
      <3>2. flash_op_seq' # flash_ops'
        BY <2>1, <2>4, <3>1 DEF FlashEnds
      <3>3. flashing = TRUE /\ flashing' = FALSE /\ beside' = beside
        BY <2>4, <1>1 DEF FlashEnds, CollectorTypeOK
      <3> QED BY <2>2, <3>2, <3>3 DEF UseInv, MarkInv
    <2> QED BY <1>4, <2>3, <2>4
  <1> QED BY <1>2, <1>3, <1>4 DEF Outside

\* A failure lets the bus go, or takes its lines with nothing clocked yet.
LEMMA FailedUses ==
    ASSUME CollectorInv, UseInv, Handler, Failed, state \in {"COMMANDED", "READING", "RESETTING"}, UNCHANGED flash
    PROVE  UseInv' /\ UsesWell
  <1> USE DEF flash
  <1>1. /\ UNCHANGED <<flash_ops, flash_op_seq, flashing, beside, part>> /\ part # "CONVERTING"
        /\ lines = "I2C" /\ scl = TRUE /\ sda = TRUE
    BY DEF Failed, FailedAt, Handler, UseInv, BusInv, PartInv, CollectorInv, CollectorTypeOK
  <1>2. MarkInv'
    BY <1>1 DEF UseInv, MarkInv
  <1>3. CASE failures_in_a_row + 1 < Failures
    <2>1. state' = "RETRYING" /\ transfer' = "NONE" /\ UNCHANGED <<lines, scl, sda>>
      BY <1>3 DEF Failed, FailedAt
    <2> QED BY <1>1, <1>2, <2>1 DEF UseInv, BusInv, PartInv, UsesWell
  <1>4. CASE ~(failures_in_a_row + 1 < Failures)
    <2>1. /\ state' = "CLEARING" /\ lines' = "MACHINE" /\ transfer' = "NONE" /\ scl' = TRUE /\ sda' = TRUE
          /\ clocks' = 0 /\ clear_edge' = 0
      BY <1>4 DEF Failed, FailedAt, BeginClear
    <2>2. Clearing'
      BY <2>1, CollectorConstants DEF Clearing, ClocksAt
    <2> QED BY <1>1, <1>2, <2>1, <2>2 DEF UseInv, BusInv, PartInv, UsesWell
  <1> QED BY <1>3, <1>4

\* A command finds the part at rest, and begins with nothing beside it or what
\* still runs.
LEMMA CommandUses ==
    ASSUME CollectorInv, UseInv, NEW k, Command(k), state \in {"READING", "RETRYING", "RELOADING"},
           UNCHANGED <<lines, scl, sda, flash_op_seq, flashing, trouble>>
    PROVE  UseInv' /\ UsesWell
  <1>1. part # "CONVERTING" /\ lines = "I2C" /\ scl = TRUE /\ sda = TRUE
    BY DEF UseInv, BusInv, PartInv, CollectorInv, CollectorTypeOK
  <1>2. PICK end \in Ends(AnyTrouble) : transfer' = end /\ PartDoes(end, "CONVERTING")
    BY DEF Command
  <1>3. state' = "COMMANDED" /\ alarm' = "CONVERTED" /\ (transfer' = "OK" => part' = "CONVERTING")
    BY <1>2 DEF Command, AlarmAtEndOfConversion, PartDoes
  <1>4. flash_ops' = flash_op_seq /\ beside' = flashing /\ flashing \in BOOLEAN
    BY DEF Command, CollectorInv, CollectorTypeOK
  <1>5. BusInv'
    BY <1>1, <1>3 DEF BusInv
  <1>6. PartInv'
    BY <1>3 DEF PartInv
  <1>7. MarkInv'
    BY <1>4 DEF MarkInv
  <1> QED BY <1>1, <1>3, <1>5, <1>6, <1>7 DEF UseInv, UsesWell

\* A read of a conversion over, marked if a flash operation ended beside it.
LEMMA AfterCommandUses ==
    ASSUME CollectorInv, UseInv, AfterCommand
    PROVE  UseInv' /\ UsesWell
  <1> USE DEF flash, task
  <1>1. CASE transfer # "OK"
    BY <1>1, FailedUses DEF AfterCommand
  <1>2. CASE transfer = "OK"
    <2>1. PICK end \in Ends(AnyTrouble) : transfer' = end /\ PartDoes(end, "IDLE")
      BY <1>2 DEF AfterCommand
    <2>2. /\ state = "COMMANDED" /\ state' = "READING" /\ alarm = "UP"
          /\ flashed' = (flash_op_seq # flash_ops)
          /\ UNCHANGED <<flash_ops, lines, scl, sda, flash_op_seq, flashing, beside, trouble>>
      BY <1>2 DEF AfterCommand, Handler
    <2>3. part \in {"IDLE", "CONVERTED"} /\ ("LOST" \in trouble \/ part = "CONVERTED")
      BY <1>2, <2>2 DEF UseInv, PartInv, CollectorInv, CollectorTypeOK
    <2>4. part' # "CONVERTING"
      BY <2>1, <2>3 DEF PartDoes
    <2>5. transfer' = "OK" => part = "CONVERTED"
      BY <2>1, <2>3 DEF Ends, AnyTrouble
    <2>6. BusInv' /\ PartInv' /\ MarkInv'
      BY <2>2, <2>4 DEF UseInv, BusInv, PartInv, MarkInv
    <2>7. /\ flashed' => beside
          /\ beside /\ ~flashing => flashed'
      BY <2>2 DEF UseInv, MarkInv, CollectorInv, CollectorTypeOK
    <2> QED BY <2>2, <2>5, <2>6, <2>7 DEF UseInv, UsesWell
  <1> QED BY <1>1, <1>2

LEMMA AfterReadUses ==
    ASSUME CollectorInv, UseInv, AfterRead
    PROVE  UseInv' /\ UsesWell
  <1> USE DEF flash, task
  <1>1. CASE transfer # "OK"
    BY <1>1, FailedUses DEF AfterRead
  <1>2. CASE transfer = "OK"
    <2>1. \E k : Command(k)
      BY <1>2, Zenon DEF AfterRead
    <2>2. state = "READING" /\ UNCHANGED <<lines, scl, sda, flash_op_seq, flashing, trouble>>
      BY <1>2 DEF AfterRead
    <2> QED BY <2>1, <2>2, CommandUses
  <1> QED BY <1>1, <1>2

LEMMA CommandAgainUses ==
    ASSUME CollectorInv, UseInv, CommandAgain
    PROVE  UseInv' /\ UsesWell
  BY CommandUses DEF CommandAgain, flash

LEMMA AfterResetUses ==
    ASSUME CollectorInv, UseInv, AfterReset
    PROVE  UseInv' /\ UsesWell
  <1> USE DEF flash, task, world
  <1>1. CASE transfer # "OK"
    BY <1>1, FailedUses DEF AfterReset
  <1>2. CASE transfer = "OK"
    <2>1. /\ state = "RESETTING" /\ state' = "RELOADING" /\ transfer' = "NONE"
          /\ UNCHANGED <<flash_ops, lines, scl, sda, flash_op_seq, flashing, part, beside>>
      BY <1>2 DEF AfterReset
    <2> QED BY <2>1 DEF UseInv, BusInv, PartInv, MarkInv, UsesWell
  <1> QED BY <1>1, <1>2

\* The arithmetic of a clear's edges: down on the even ones, up on the odd.
LEMMA EdgeCount ==
    ASSUME NEW e \in Nat
    PROVE  /\ e % 2 \in {0, 1} /\ e \div 2 \in Nat /\ e = 2 * (e \div 2) + (e % 2)
           /\ e % 2 = 0 => (e + 1) % 2 = 1 /\ (e + 1) \div 2 = e \div 2
           /\ e % 2 = 1 => (e + 1) % 2 = 0 /\ (e + 1) \div 2 = (e \div 2) + 1
  OBVIOUS

\* Each edge of a clear, and its end.
LEMMA ClearStepUses ==
    ASSUME CollectorInv, UseInv, ClearStep
    PROVE  UseInv' /\ UsesWell
  <1> USE CollectorConstants DEF flash, task
  <1>1. /\ state = "CLEARING" /\ Clearing /\ lines = "MACHINE" /\ transfer = "NONE" /\ part # "CONVERTING"
        /\ clear_edge' = clear_edge + 1 /\ clear_edge \in Nat /\ clocks \in 0..TargetClocks
        /\ scl \in BOOLEAN /\ sda \in BOOLEAN /\ stopped \in BOOLEAN
        /\ UNCHANGED <<flash_ops, flash_op_seq, flashing, beside>>
    BY DEF ClearStep, UseInv, BusInv, PartInv, CollectorInv, CollectorTypeOK
  <1>2. MarkInv'
    BY <1>1 DEF UseInv, MarkInv
  <1>3. CASE ~ClearDone
    <2>1. state' = "CLEARING" /\ UNCHANGED <<transfer, lines, part>> /\ clear_edge <= ClearEdges + 1
      BY <1>1, <1>3 DEF ClearStep, ClearDone
    <2>0. \/ clear_edge < ClearEdges /\ Edge(clear_edge % 2 = 1, sda)
          \/ clear_edge = ClearEdges /\ Edge(scl, FALSE)
          \/ clear_edge = ClearEdges + 1 /\ Edge(scl, TRUE)
      BY <1>3, Zenon DEF ClearStep
    <2>2. CASE clear_edge < ClearEdges
      <3>0. clear_edge # ClearEdges /\ clear_edge # ClearEdges + 1
        BY <1>1, <2>2
      <3>1. Edge(clear_edge % 2 = 1, sda)
        BY <2>0, <3>0, Zenon
      <3>2. clocks = ClocksAt(clear_edge) /\ sda = TRUE /\ (scl = TRUE <=> clear_edge % 2 = 0)
        BY <1>1, <2>2 DEF Clearing
      <3>3. sda' = TRUE /\ (scl' = TRUE <=> clear_edge % 2 = 1)
        BY <3>1, <3>2 DEF Edge
      <3>4. clocks' = IF scl = FALSE /\ clear_edge % 2 = 1 /\ clocks < TargetClocks THEN clocks + 1 ELSE clocks
        BY <1>1, <3>1 DEF Edge
      <3>5. clocks' = ClocksAt(clear_edge + 1)
        <4>1. CASE clear_edge % 2 = 0
          BY <1>1, <3>2, <3>4, <4>1, EdgeCount DEF ClocksAt
        <4>2. CASE clear_edge % 2 = 1
          BY <1>1, <3>2, <3>4, <4>2, EdgeCount DEF ClocksAt
        <4> QED BY <1>1, <4>1, <4>2, EdgeCount
      <3>6. scl' = TRUE <=> (clear_edge + 1) % 2 = 0
        BY <1>1, <3>3, EdgeCount
      <3>7. clear_edge + 1 <= ClearEdges
        BY <1>1, <2>2
      <3>8. Clearing'
        BY <1>1, <3>3, <3>5, <3>6, <3>7 DEF Clearing, ClocksAt
      <3> QED BY <1>1, <1>2, <2>1, <3>8 DEF UseInv, BusInv, PartInv, UsesWell
    <2>3. CASE clear_edge = ClearEdges
      <3>0. ~(clear_edge < ClearEdges) /\ clear_edge # ClearEdges + 1
        BY <1>1, <2>3
      <3>1. Edge(scl, FALSE)
        BY <2>0, <3>0, Zenon
      <3>2. clocks = TargetClocks /\ scl = TRUE
        <4>1. clear_edge % 2 = 0 /\ clear_edge >= 2 * TargetClocks
          BY <2>3, ClearAssumption
        <4>2. clear_edge \div 2 >= TargetClocks
          BY <1>1, <4>1, EdgeCount
        <4> QED BY <1>1, <2>3, <4>1, <4>2 DEF Clearing, ClocksAt
      <3>3. scl' = TRUE /\ sda' = FALSE /\ clocks' = TargetClocks
        BY <1>1, <3>1, <3>2 DEF Edge
      <3>4. Clearing'
        BY <1>1, <2>3, <3>3 DEF Clearing
      <3> QED BY <1>1, <1>2, <2>1, <3>4 DEF UseInv, BusInv, PartInv, UsesWell
    <2>4. CASE clear_edge = ClearEdges + 1
      <3>0. ~(clear_edge < ClearEdges) /\ clear_edge # ClearEdges
        BY <1>1, <2>4
      <3>1. Edge(scl, TRUE)
        BY <2>0, <3>0, Zenon
      <3>2. clocks = TargetClocks /\ scl = TRUE /\ sda = FALSE
        BY <1>1, <2>4 DEF Clearing
      <3>3. scl' = TRUE /\ sda' = TRUE /\ clocks' = TargetClocks /\ stopped' = TRUE
        BY <1>1, <3>1, <3>2 DEF Edge
      <3>4. Clearing'
        BY <1>1, <2>4, <3>3 DEF Clearing
      <3> QED BY <1>1, <1>2, <2>1, <3>4 DEF UseInv, BusInv, PartInv, UsesWell
    <2> QED BY <1>1, <2>1, <2>2, <2>3, <2>4
  <1>4. CASE ClearDone
    <2>1. clear_edge = ClearEdges + 2
      BY <1>1, <1>4 DEF ClearDone, Clearing
    <2>2. scl = TRUE /\ sda = TRUE /\ clocks = TargetClocks /\ stopped = TRUE
      BY <1>1, <2>1 DEF Clearing
    <2>3. state' = "RESETTING" /\ lines' = "I2C" /\ UNCHANGED <<scl, sda, clocks, stopped>>
      BY <1>4 DEF ClearStep
    <2>4. PICK end \in Ends({"HELD", "STUCK"}) : PartDoes(end, "IDLE")
      BY <1>4 DEF ClearStep
    <2>5. part' # "CONVERTING"
      BY <1>1, <2>4 DEF PartDoes
    <2> QED BY <1>1, <1>2, <2>2, <2>3, <2>5 DEF UseInv, BusInv, PartInv, UsesWell
  <1> QED BY <1>3, <1>4

LEMMA UseStep == CollectorInv /\ UseInv /\ [CollectorNext]_collectorVars => UseInv' /\ UsesWell
  BY OthersUse, AfterCommandUses, AfterReadUses, CommandAgainUses, ClearStepUses, AfterResetUses
     DEF CollectorNext, Interrupt

LEMMA UseInit == CollectorInit => UseInv
  BY DEF CollectorInit, UseInv, BusInv, PartInv, MarkInv

-----------------------------------------------------------------------------
\* The machine's places and counts stay within their bounds, so that no slot
\* outside the queue is written, whatever fails and whenever (pressure_collector.c:69).
THEOREM CollectorTypeCorrect == CollectorSpec => []CollectorTypeOK
  <1>1. CollectorInv => CollectorTypeOK
    BY DEF CollectorInv
  <1> QED BY <1>1, CollectorInvInit, CollectorInvStep, PTL DEF CollectorSpec

\* What is queued is whole cycles of one attempt each, in order and with none
\* left out but those dropped, and the task takes the oldest, each once, with
\* the interrupt held off: for every queue and every cycle's length.
THEOREM CyclesAlwaysInOrder == CollectorSpec => []CyclesInOrder
  <1>1. CollectorInv => CyclesInOrder
    BY DEF CollectorInv, TakeInv, CyclesInOrder
  <1> QED BY <1>1, CollectorInvInit, CollectorInvStep, PTL DEF CollectorSpec

\* SNS-COL-02, SNS-COL-05: no transfer is queued on lines the machine drives, a
\* clear gives a part all its clocks and a STOP before it is reset, and a
\* conversion is read once and when it is over, whatever fails on the way, for
\* a clear of any length.
THEOREM PartAlwaysUsedWell == CollectorSpec => PartUsedWell
  <1>1. CollectorInv /\ UseInv => BusCleared
    BY DEF CollectorInv, CollectorTypeOK, UseInv, BusInv, BusCleared
  <1>2. CollectorInv /\ UseInv /\ [CollectorNext]_collectorVars => [UsesWell]_collectorVars
    BY UseStep
  <1>3. CollectorInv /\ UseInv /\ [CollectorNext]_collectorVars => UseInv'
    BY UseStep
  <1> QED BY <1>1, <1>2, <1>3, CollectorInvInit, CollectorInvStep, UseInit, PTL DEF CollectorSpec, PartUsedWell,
                ReadOnce, UsesWell
=============================================================================
