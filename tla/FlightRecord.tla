---------------------------- MODULE FlightRecord ----------------------------
(***************************************************************************)
(* What the flight log promises [FLT-LOG-07, FLT-LOG-08]: the rows it takes  *)
(* reach the record in the order they were made, each whole and once, and    *)
(* each row made is taken or counted, in as many units as are missing.       *)
(***************************************************************************)
EXTENDS Naturals, Sequences

CONSTANT Rows       \* what a row may be

VARIABLES
    made,      \* how many rows there have been
    taken,     \* the rows taken, in order
    recorded,  \* how many of them the record holds
    lost,      \* what is counted as lost: two for a row, as the log counts its bytes
    open       \* the record is being made

record == <<made, taken, recorded, lost, open>>

Begins == made = 0 /\ recorded = 0 /\ lost = 0 /\ open = FALSE /\ taken = <<>>

Open == ~open /\ recorded = 0 /\ open' = TRUE /\ UNCHANGED <<made, taken, recorded, lost>>

Take(row) == open /\ made' = made + 1 /\ taken' = Append(taken, row) /\ UNCHANGED <<recorded, lost, open>>

Lose == open /\ made' = made + 1 /\ lost' = lost + 2 /\ UNCHANGED <<taken, recorded, open>>

Record == open /\ recorded' \in (recorded + 1)..Len(taken) /\ UNCHANGED <<made, taken, lost, open>>

\* A record is closed whole, or what is missing of it is counted, a row cut
\* short by its one unit that did not reach it.
Close ==
    /\ open /\ open' = FALSE
    /\ \/ recorded = Len(taken) /\ lost' = lost
       \/ LET missing == Len(taken) - recorded
          IN missing > 0 /\ lost' - lost \in {2 * missing - 1, 2 * missing}
    /\ UNCHANGED <<made, taken, recorded>>

Step == Open \/ (\E row \in Rows : Take(row)) \/ Lose \/ Record \/ Close

Promise == Begins /\ [][Step]_record
=============================================================================
